---- MODULE Spec2Model ----
(***************************************************************************)
(* A model of the datamatrix crate: the DataMatrix value with its shape    *)
(* gate, and DataMatrixBuilder with its line parser, indexer and the three *)
(* format strategies.                                                      *)
(*                                                                         *)
(* Representation.  A character is a one-character string, or the string  *)
(* "U+XXXX" that names its code point where TLA+ cannot write it; a Rust   *)
(* String (a line, a token, a label, a path) is a sequence of characters.  *)
(* A disk is a working directory and the entries under the root, each by   *)
(* the names that lead to it; an entry is a directory, or a regular file   *)
(* with the text it holds, line terminators included, and whether it is    *)
(* gzip data.  A finite f64 is (-)mant * 2^exp with mant odd and below     *)
(* 2^53, written in decimal: the f64 nearest to the decimal number its     *)
(* token is read as, ties to the even mantissa, an infinity from 2^1024    *)
(* on.  NaN is a value of its own.  A usize is an integer; the indices of  *)
(* the files modelled are small.  Option<T> is None or Some(x).  A call    *)
(* ends in Ok(matrix), Err(error) or Panic(message); a Rust panic (index   *)
(* out of bounds) is an outcome of its own, neither Ok nor Err.            *)
(***************************************************************************)
EXTENDS Integers, Sequences, FiniteSets, TLC

VARIABLES
    builder,    \* the DataMatrixBuilder configuration being set up
    input,      \* the arguments of the terminal call (grid, data, path and disk)
    call,       \* the operation that has been called, "none" before the call
    result,     \* what the call returned
    objects,    \* the PyDataMatrixBuilder objects the Python side holds, by reference 1..Len
    indexer     \* an Indexer that labels are added to

vars == <<builder, input, call, result, objects, indexer>>

----------------------------------------------------------------------------
(* Option and Result values *)

None == [some |-> FALSE]

Some(x) == [some |-> TRUE, val |-> x]

Ok(v) == [kind |-> "Ok", val |-> v]

Err(e) == [kind |-> "Err", error |-> e]

Panic(msg) == [kind |-> "Panic", message |-> msg]

NoResult == [kind |-> "None"]

IsOk(r) == r.kind = "Ok"

IsErr(r, type) == r.kind = "Err" /\ r.error.type = type

IsPanic(r) == r.kind = "Panic"

----------------------------------------------------------------------------
(* Characters and numbers *)

\* char::is_whitespace: the characters with the Unicode property White_Space
Whitespace ==
    {" ", "\t", "\n", "\r", "\f", "U+000B", "U+0085", "U+00A0", "U+1680",
     "U+2000", "U+2001", "U+2002", "U+2003", "U+2004", "U+2005", "U+2006",
     "U+2007", "U+2008", "U+2009", "U+200A", "U+2028", "U+2029", "U+202F",
     "U+205F", "U+3000"}

DigitChars == <<"0", "1", "2", "3", "4", "5", "6", "7", "8", "9">>

IsDigit(c) == \E d \in 1..10 : DigitChars[d] = c

DigitVal(c) == (CHOOSE d \in 1..10 : DigitChars[d] = c) - 1

\* format!("{}", n) for an unsigned integer
RECURSIVE ToDecimal(_)
ToDecimal(n) ==
    IF n < 10 THEN <<DigitChars[n + 1]>>
    ELSE ToDecimal(n \div 10) \o <<DigitChars[(n % 10) + 1]>>

\* (len as f64).sqrt() as usize: the integer part of the square root
ISqrt(len) == CHOOSE k \in 0..len : k * k <= len /\ (k + 1) * (k + 1) > len

Max(a, b) == IF a >= b THEN a ELSE b

----------------------------------------------------------------------------
(* DataMatrix *)

DataMatrix(data, row_labels, col_labels) ==
    [data |-> data, row_labels |-> row_labels, col_labels |-> col_labels]

IncorrectMatrixLabels(expected, actual) ==
    [type |-> "IncorrectMatrixLabels", expected |-> expected, actual |-> actual]

\* The second test builds its Err from data[0].len(), so an empty grid with
\* an empty row-label list indexes an empty Vec and panics.  Only row 0 is
\* compared with the column labels.
DataMatrix_new(data, row_labels, col_labels) ==
    IF Len(data) # Len(row_labels)
    THEN Err(IncorrectMatrixLabels(Len(row_labels), Len(data)))
    ELSE IF Len(data) = 0
    THEN Panic("index out of bounds: data[0]")
    ELSE IF Len(data[1]) # Len(col_labels)
    THEN Err(IncorrectMatrixLabels(Len(col_labels), Len(data[1])))
    ELSE Ok(DataMatrix(data, row_labels, col_labels))

nrows(m) == Len(m.data)

ncols(m) == IF Len(m.data) > 0 THEN Len(m.data[1]) ELSE 0

\* get(i, j), with i and j counted from 0 as in the code
get(m, i, j) ==
    IF i < Len(m.data) /\ j < Len(m.data[i + 1])
    THEN Some(m.data[i + 1][j + 1])
    ELSE None

\* iter().position(): the 0-based position of the first match
position(labels, label) ==
    IF \E k \in 1..Len(labels) : labels[k] = label
    THEN Some((CHOOSE k \in 1..Len(labels) :
                  /\ labels[k] = label
                  /\ \A l \in 1..(k - 1) : labels[l] # label) - 1)
    ELSE None

get_by_label(m, row_label, col_label) ==
    LET row_idx == position(m.row_labels, row_label)
        col_idx == position(m.col_labels, col_label)
    IN  IF ~row_idx.some THEN None
        ELSE IF ~col_idx.some THEN None
        ELSE get(m, row_idx.val, col_idx.val)

----------------------------------------------------------------------------
(* DataMatrixBuilder: configuration *)

DataMatrixBuilder_new ==
    [row_label_col |-> 0,
     col_label_col |-> 1,
     data_col      |-> 2,
     row_idx_col   |-> None,
     col_idx_col   |-> None,
     separator     |-> None,
     symmetric     |-> FALSE,
     skip_header   |-> FALSE,
     labels        |-> None]

\* label_columns that also moves the value column behind the column labels
label_columns_moves_data(self, row, col) ==
    [self EXCEPT !.row_label_col = row, !.col_label_col = col, !.data_col = col + 1]

label_columns(self, row, col) ==
    [self EXCEPT !.row_label_col = row, !.col_label_col = col]

labels(self, given) == [self EXCEPT !.labels = Some(given)]

data_column(self, val) == [self EXCEPT !.data_col = val]

index_columns(self, row_idx, col_idx) ==
    [self EXCEPT !.row_idx_col = Some(row_idx), !.col_idx_col = Some(col_idx)]

separator(self, sep) == [self EXCEPT !.separator = Some(sep)]

skip_header(self, if_header) == [self EXCEPT !.skip_header = if_header]

symmetric(self, if_symmetric) == [self EXCEPT !.symmetric = if_symmetric]

----------------------------------------------------------------------------
(* DataMatrixBuilder::from_data *)

WrongNumberOfData(n_data) == [type |-> "WrongNumberOfData", n_data |-> n_data]

RowPrefix == <<"r", "o", "w", "-">>

ColPrefix == <<"c", "o", "l", "-">>

\* values[start..end] of every row, row-major
RowMajor(values, n) ==
    [i \in 1..n |-> SubSeq(values, (i - 1) * n + 1, (i - 1) * n + n)]

\* from_data that falls back to the generated labels when the configured
\* ones do not fit the dimension
from_data_falls_back(self, data) ==
    LET len == Len(data)
        n   == ISqrt(len)
    IN  IF n * n # len
        THEN Err(WrongNumberOfData(len))
        ELSE LET fits == self.labels.some /\ Len(self.labels.val) = n
                 row_labels ==
                     IF fits THEN self.labels.val
                     ELSE [i \in 1..n |-> RowPrefix \o ToDecimal(i)]
                 col_labels ==
                     IF fits THEN self.labels.val
                     ELSE [i \in 1..n |-> ColPrefix \o ToDecimal(i)]
             IN  DataMatrix_new(RowMajor(data, n), row_labels, col_labels)

from_data(self, data) ==
    LET len == Len(data)
        n   == ISqrt(len)
    IN  IF n * n # len
        THEN Err(WrongNumberOfData(len))
        ELSE LET row_labels ==
                     IF self.labels.some THEN self.labels.val
                     ELSE [i \in 1..n |-> RowPrefix \o ToDecimal(i)]
                 col_labels ==
                     IF self.labels.some THEN self.labels.val
                     ELSE [i \in 1..n |-> ColPrefix \o ToDecimal(i)]
             IN  DataMatrix_new(RowMajor(data, n), row_labels, col_labels)

----------------------------------------------------------------------------
(* Strings: str::trim, starts_with, split, split_whitespace, parse *)

RECURSIVE trim_start(_)
trim_start(s) ==
    IF Len(s) > 0 /\ Head(s) \in Whitespace THEN trim_start(Tail(s)) ELSE s

RECURSIVE trim_end(_)
trim_end(s) ==
    IF Len(s) > 0 /\ s[Len(s)] \in Whitespace
    THEN trim_end(SubSeq(s, 1, Len(s) - 1))
    ELSE s

trim(s) == trim_end(trim_start(s))

starts_with(s, c) == Len(s) > 0 /\ Head(s) = c

\* Splits s at every character of seps; empty pieces are kept, so the
\* result has one piece more than s has separator characters.  The pieces
\* of s[lo..hi] are those before and those after the separator nearest to
\* the middle.
RECURSIVE SplitRange(_, _, _, _)
SplitAround(s, seps, lo, hi, cut) ==
    SplitRange(s, seps, lo, cut - 1) \o SplitRange(s, seps, cut + 1, hi)

SplitRange(s, seps, lo, hi) ==
    IF \A i \in lo..hi : s[i] \notin seps THEN <<SubSeq(s, lo, hi)>>
    ELSE SplitAround(s, seps, lo, hi,
                     CHOOSE c \in lo..hi :
                         /\ s[c] \in seps
                         /\ \A d \in lo..hi :
                                s[d] \in seps =>
                                    ((2 * c) - (lo + hi)) * ((2 * c) - (lo + hi))
                                        <= ((2 * d) - (lo + hi)) * ((2 * d) - (lo + hi)))

SplitAt(s, seps) == SplitRange(s, seps, 1, Len(s))

NonEmpty(tok) == Len(tok) > 0

\* str::split(char)
split(s, sep) == SplitAt(s, {sep})

\* str::split_whitespace(): runs of whitespace separate, no empty token
split_whitespace(s) == SelectSeq(SplitAt(s, Whitespace), NonEmpty)

AllDigits(tok) == Len(tok) > 0 /\ \A k \in 1..Len(tok) : IsDigit(tok[k])

RECURSIVE DecimalValue(_)
DecimalValue(tok) ==
    IF Len(tok) = 0 THEN 0
    ELSE 10 * DecimalValue(SubSeq(tok, 1, Len(tok) - 1)) + DigitVal(tok[Len(tok)])

\* The digits of usize::MAX = 2^64 - 1
UsizeMaxDigits ==
    <<"1", "8", "4", "4", "6", "7", "4", "4", "0", "7", "3", "7", "0", "9", "5", "5",
      "1", "6", "1", "5">>

\* The digits without leading zeros; the last digit always stays
StripZeros(digits) ==
    IF \A k \in 1..(Len(digits) - 1) : digits[k] = "0" THEN SubSeq(digits, Len(digits), Len(digits))
    ELSE SubSeq(digits,
                CHOOSE k \in 1..Len(digits) :
                    digits[k] # "0" /\ \A l \in 1..(k - 1) : digits[l] = "0",
                Len(digits))

\* a <= b for two digit strings of one length, digit by digit
RECURSIVE DigitsLeq(_, _)
DigitsLeq(a, b) ==
    IF Len(a) = 0 THEN TRUE
    ELSE IF DigitVal(Head(a)) # DigitVal(Head(b)) THEN DigitVal(Head(a)) < DigitVal(Head(b))
    ELSE DigitsLeq(Tail(a), Tail(b))

\* The number the digits spell is at most usize::MAX
FitsUsize(digits) ==
    LET d == StripZeros(digits)
    IN  \/ Len(d) < Len(UsizeMaxDigits)
        \/ Len(d) = Len(UsizeMaxDigits) /\ DigitsLeq(d, UsizeMaxDigits)

\* str::parse::<usize>(): an optional '+' and at least one digit; a number
\* above usize::MAX overflows and is an error.
ParseUsize(tok) ==
    LET digits == IF starts_with(tok, "+") THEN Tail(tok) ELSE tok
    IN  IF AllDigits(digits) /\ FitsUsize(digits) THEN Some(DecimalValue(digits)) ELSE None

----------------------------------------------------------------------------
(* Paths: Path::file_name, extension, file_stem; to_ascii_lowercase *)

UpperChars == <<"A", "B", "C", "D", "E", "F", "G", "H", "I", "J", "K", "L", "M",
                "N", "O", "P", "Q", "R", "S", "T", "U", "V", "W", "X", "Y", "Z">>

LowerChars == <<"a", "b", "c", "d", "e", "f", "g", "h", "i", "j", "k", "l", "m",
                "n", "o", "p", "q", "r", "s", "t", "u", "v", "w", "x", "y", "z">>

LowerChar(c) ==
    IF \E k \in 1..26 : UpperChars[k] = c
    THEN LowerChars[CHOOSE k \in 1..26 : UpperChars[k] = c]
    ELSE c

to_ascii_lowercase(s) == [k \in 1..Len(s) |-> LowerChar(s[k])]

----------------------------------------------------------------------------
(* Natural numbers of any size, for the rounding of str::parse::<f64>():    *)
(* limbs of four decimal digits, the least significant limb first, no zero  *)
(* limb at the top; zero is the empty sequence.                             *)

BigTrim(a) ==
    IF \A i \in 1..Len(a) : a[i] = 0 THEN <<>>
    ELSE SubSeq(a, 1, CHOOSE i \in 1..Len(a) :
                          a[i] # 0 /\ \A j \in (i + 1)..Len(a) : a[j] = 0)

\* The number the digits spell, four digits to a limb
BigOfDigits(digits) ==
    BigTrim([i \in 1..((Len(digits) + 3) \div 4) |->
                DecimalValue(SubSeq(digits,
                                    IF Len(digits) - (4 * i) < 0 THEN 1
                                    ELSE (Len(digits) - (4 * i)) + 1,
                                    Len(digits) - (4 * (i - 1))))])

BigLess(a, b) ==
    IF Len(a) # Len(b) THEN Len(a) < Len(b)
    ELSE \E i \in 1..Len(a) : a[i] < b[i] /\ \A j \in (i + 1)..Len(a) : a[j] = b[j]

\* The limbs lo..hi of a * k + carry and the carry out of them; the two
\* halves of the range one after the other
RECURSIVE TimesRange(_, _, _, _, _)
TimesRange(a, k, lo, hi, carry) ==
    IF lo > hi THEN [limbs |-> <<>>, carry |-> carry]
    ELSE IF lo = hi
    THEN LET t == (a[lo] * k) + carry
         IN  [limbs |-> <<t % 10000>>, carry |-> t \div 10000]
    ELSE LET mid  == (lo + hi) \div 2
             low  == TimesRange(a, k, lo, mid, carry)
             high == TimesRange(a, k, mid + 1, hi, low.carry)
         IN  [limbs |-> low.limbs \o high.limbs, carry |-> high.carry]

\* The limbs with the carry out of them on top
CarryOut(r) ==
    r.limbs \o (IF r.carry = 0 THEN <<>>
                ELSE IF r.carry < 10000 THEN <<r.carry>>
                ELSE <<r.carry % 10000, r.carry \div 10000>>)

\* a * k + carry, for 1 <= k <= 2^16 and carry <= 2^16
BigTimes(a, k, carry) == CarryOut(TimesRange(a, k, 1, Len(a), carry))

\* The limbs lo..hi of a - b - borrow and the borrow out of them
RECURSIVE MinusRange(_, _, _, _, _)
MinusRange(a, b, lo, hi, borrow) ==
    IF lo > hi THEN [limbs |-> <<>>, borrow |-> borrow]
    ELSE IF lo = hi
    THEN LET sub == (IF lo > Len(b) THEN 0 ELSE b[lo]) + borrow
         IN  IF a[lo] >= sub THEN [limbs |-> <<a[lo] - sub>>, borrow |-> 0]
             ELSE [limbs |-> <<(a[lo] + 10000) - sub>>, borrow |-> 1]
    ELSE LET mid  == (lo + hi) \div 2
             low  == MinusRange(a, b, lo, mid, borrow)
             high == MinusRange(a, b, mid + 1, hi, low.borrow)
         IN  [limbs |-> low.limbs \o high.limbs, borrow |-> high.borrow]

\* a - b, for a >= b
BigMinus(a, b) == BigTrim(MinusRange(a, b, 1, Len(a), 0).limbs)

\* a / 2, rounded down
BigHalf(a) ==
    BigTrim([i \in 1..Len(a) |->
                (a[i] + (IF i < Len(a) /\ a[i + 1] % 2 = 1 THEN 10000 ELSE 0)) \div 2])

RECURSIVE PowerOf(_, _)
PowerOf(b, k) == IF k = 0 THEN 1 ELSE b * PowerOf(b, k - 1)

\* a * 2^k, the shift in two halves
RECURSIVE BigShift(_, _)
BigShift(a, k) ==
    IF k = 0 \/ Len(a) = 0 THEN a
    ELSE IF k <= 16 THEN BigTimes(a, PowerOf(2, k), 0)
    ELSE LET half == BigShift(a, k \div 2)
         IN  IF Len(half) = 0 THEN half ELSE BigShift(half, k - (k \div 2))

\* The largest t in lo..hi with a * 2^t <= b, given a * 2^lo <= b
RECURSIVE LargestShiftIn(_, _, _, _)
LargestShiftIn(a, b, lo, hi) ==
    IF lo = hi THEN lo
    ELSE LET mid == ((lo + hi) + 1) \div 2
         IN  IF BigLess(b, BigShift(a, mid)) THEN LargestShiftIn(a, b, lo, mid - 1)
             ELSE LargestShiftIn(a, b, mid, hi)

\* The largest t with a * 2^t <= b, for 0 < a <= b: a limb has more than 13
\* bits and fewer than 14
LargestShift(a, b) ==
    LET limbs == Len(b) - Len(a)
    IN  LargestShiftIn(a, b, IF limbs > 1 THEN 13 * (limbs - 1) ELSE 0, 14 * (limbs + 1))

\* floor(log2(num / den)) for num < den, t the largest with num * 2^t <= den
Log2Below(num, den, t) == IF BigShift(num, t) = den THEN 0 - t ELSE 0 - (t + 1)

\* floor(log2(num / den)), for num > 0 and den > 0
Log2Floor(num, den) ==
    IF ~BigLess(num, den) THEN LargestShift(den, num)
    ELSE Log2Below(num, den, LargestShift(num, den))

\* The largest d in lo..hi with den * d <= rem, given den * lo <= rem
RECURSIVE QuotientLimb(_, _, _, _)
QuotientLimb(den, rem, lo, hi) ==
    IF lo = hi THEN lo
    ELSE LET mid == ((lo + hi) + 1) \div 2
         IN  IF BigLess(rem, BigTimes(den, mid, 0))
             THEN QuotientLimb(den, rem, lo, mid - 1)
             ELSE QuotientLimb(den, rem, mid, hi)

RECURSIVE BigDivideFrom(_, _, _, _)

\* The quotient of the lower limbs with the limb d on top of it
PushLimb(rest, d) == [quot |-> Append(rest.quot, d), rem |-> rest.rem]

\* The limb d taken from cur, and the lower limbs divided
DivideLimb(num, den, k, cur, d) ==
    PushLimb(BigDivideFrom(num, den, k - 1,
                           IF d = 0 THEN cur ELSE BigMinus(cur, BigTimes(den, d, 0))),
             d)

\* Long division: the k lowest limbs of num are brought down one by one
BigDivideFrom(num, den, k, rem) ==
    IF k = 0 THEN [quot |-> <<>>, rem |-> rem]
    ELSE DivideLimb(num, den, k, BigTrim(<<num[k]>> \o rem),
                    QuotientLimb(den, BigTrim(<<num[k]>> \o rem), 0, 9999))

TrimQuotient(res) == [quot |-> BigTrim(res.quot), rem |-> res.rem]

\* Quotient and remainder of num / den, for a quotient below 10^16
BigDivide(num, den) ==
    LET k == IF Len(num) > 4 THEN 4 ELSE Len(num)
    IN  TrimQuotient(BigDivideFrom(num, den, k, SubSeq(num, k + 1, Len(num))))

\* The limbs k..1 of a in decimal, four digits each
RECURSIVE LowLimbs(_, _)
LowLimbs(a, k) ==
    IF k = 0 THEN <<>>
    ELSE <<DigitChars[(a[k] \div 1000) + 1], DigitChars[((a[k] \div 100) % 10) + 1],
           DigitChars[((a[k] \div 10) % 10) + 1], DigitChars[(a[k] % 10) + 1]>>
             \o LowLimbs(a, k - 1)

\* The decimal digits of a > 0
DigitsOfBig(a) == ToDecimal(a[Len(a)]) \o LowLimbs(a, Len(a) - 1)

----------------------------------------------------------------------------
(* f64 values and str::parse::<f64>().  A finite f64 other than zero is     *)
(* mant * 2^exp with mant odd and below 2^53, mant written in decimal.      *)

Infinity(neg) == [class |-> "inf", neg |-> neg, mant |-> <<"0">>, exp |-> 0]

NaN == [class |-> "nan", neg |-> FALSE, mant |-> <<"0">>, exp |-> 0]

\* The zeros of both signs compare equal in Rust and are different values
Zero(neg) == [class |-> "finite", neg |-> neg, mant |-> <<"0">>, exp |-> 0]

\* n * 2^exp for a whole number n > 0 that fits an integer of the model
RECURSIVE OddTimesPower(_, _, _)
OddTimesPower(neg, n, exp) ==
    IF n % 2 = 0 THEN OddTimesPower(neg, n \div 2, exp + 1)
    ELSE [class |-> "finite", neg |-> neg, mant |-> ToDecimal(n), exp |-> exp]

\* q * 2^exp for 0 < q <= 2^53
RECURSIVE BigOddTimesPower(_, _, _)
BigOddTimesPower(neg, q, exp) ==
    IF q[1] % 2 = 0 THEN BigOddTimesPower(neg, BigHalf(q), exp + 1)
    ELSE [class |-> "finite", neg |-> neg, mant |-> DigitsOfBig(q), exp |-> exp]

\* The exponent of the lowest of the 53 bits of a number whose leading bit
\* is 2^log; -1074 at least
BinaryExponent(log) == IF log - 52 < -1074 THEN -1074 ELSE log - 52

\* The f64 q * 2^exp for a rounded quotient q <= 2^53 = 9007 1992 5474 0992
OfQuotient(neg, q, exp) ==
    IF Len(q) = 0 THEN Zero(neg)
    ELSE IF exp > 971 \/ (exp = 971 /\ ~BigLess(q, <<992, 5474, 1992, 9007>>)) THEN Infinity(neg)
    ELSE BigOddTimesPower(neg, q, exp)

\* The remainder is above half of d, or is half of d and the quotient is odd
RoundsUp(d, twice, quot) ==
    BigLess(d, twice) \/ (twice = d /\ Len(quot) > 0 /\ quot[1] % 2 = 1)

\* The quotient rounded to the nearest whole number, ties to even
RoundedQuotient(neg, d, div, exp) ==
    OfQuotient(neg,
               IF RoundsUp(d, BigTimes(div.rem, 2, 0), div.quot)
               THEN BigTimes(div.quot, 1, 1) ELSE div.quot,
               exp)

\* n / d * 2^exp rounded
RoundedRatio(neg, n, d, exp) == RoundedQuotient(neg, d, BigDivide(n, d), exp)

\* num / den rounded to a whole multiple of 2^exp
RoundedAt(neg, num, den, exp) ==
    RoundedRatio(neg,
                 IF exp < 0 THEN BigShift(num, 0 - exp) ELSE num,
                 IF exp > 0 THEN BigShift(den, exp) ELSE den,
                 exp)

\* The f64 nearest to num / den, ties to the even mantissa: 53 bits from the
\* leading bit, fewer below 2^-1022 (subnormal numbers end at 2^-1074), and
\* infinity from 2^1024 on.
Rounded(neg, num, den) == RoundedAt(neg, num, den, BinaryExponent(Log2Floor(num, den)))

\* The digits without trailing zeros, for digits that are not all zero
StripTrailingZeros(digits) ==
    SubSeq(digits, 1, CHOOSE k \in 1..Len(digits) :
                          digits[k] # "0" /\ \A l \in (k + 1)..Len(digits) : digits[l] = "0")

\* The f64 nearest to digits * 10^e, n the number the digits spell when they
\* are few
NearestTo(neg, digits, e, n) ==
    IF (Len(digits) + e) - 1 > 309 THEN Infinity(neg)
    ELSE IF (Len(digits) + e) - 1 < -326 THEN Zero(neg)
    ELSE IF Len(digits) <= 9 /\ e >= 0 /\ e <= 9 /\ n <= 2147483647 \div PowerOf(10, e)
         THEN OddTimesPower(neg, n * PowerOf(5, e), e)
    ELSE IF Len(digits) <= 9 /\ e < 0 /\ e >= -9 /\ n % PowerOf(5, 0 - e) = 0
         THEN OddTimesPower(neg, n \div PowerOf(5, 0 - e), e)
    ELSE Rounded(neg,
                 BigOfDigits(IF e >= 0 THEN digits \o [i \in 1..e |-> "0"] ELSE digits),
                 IF e >= 0 THEN <<1>> ELSE BigOfDigits(<<"1">> \o [i \in 1..(0 - e) |-> "0"]))

\* The same for digits that end top places above 10^exp: digits has neither
\* leading nor trailing zeros
NearestOf(neg, digits, top) ==
    NearestTo(neg, digits, top - Len(digits),
              IF Len(digits) <= 9 THEN DecimalValue(digits) ELSE 0)

\* The f64 nearest to the decimal number (-)mant * 10^exp, mant a string of
\* digits.  A number of few digits that is a whole multiple of a power of
\* two is an f64 itself; every other number is rounded.
NearestF64(neg, mant, exp) ==
    IF \A k \in 1..Len(mant) : mant[k] = "0" THEN Zero(neg)
    ELSE NearestOf(neg, StripTrailingZeros(StripZeros(mant)), exp + Len(StripZeros(mant)))

\* The f64 of a whole number, as in vec![0.0; n] and in the &[f64] of from_data
F64(n) ==
    IF n < 0 THEN NearestF64(TRUE, ToDecimal(0 - n), 0) ELSE NearestF64(FALSE, ToDecimal(n), 0)

\* The first position of one of the characters in s, 0 when there is none
FirstOf(s, chars) ==
    IF \E k \in 1..Len(s) : s[k] \in chars
    THEN CHOOSE k \in 1..Len(s) : s[k] \in chars /\ \A l \in 1..(k - 1) : s[l] \notin chars
    ELSE 0

\* The exponent as the parser adds it up: a digit is taken in as long as the
\* exponent read so far is below 65536, the digits after that are passed
\* over.  Four digits stay below, six always reach it.
ExponentValue(digits) ==
    LET d == StripZeros(digits)
    IN  IF Len(d) <= 5 THEN DecimalValue(d)
        ELSE IF DecimalValue(SubSeq(d, 1, 5)) >= 65536 THEN DecimalValue(SubSeq(d, 1, 5))
        ELSE DecimalValue(SubSeq(d, 1, 6))

\* str::parse::<f64>(): an optional sign, then inf, infinity or nan in any
\* case, or digits with at most one '.' and at least one digit, and an
\* optional exponent: e or E, an optional sign, at least one digit.  The
\* value is the f64 nearest to the digits times ten to the exponent as the
\* parser adds it up, which is the number the token spells unless the
\* exponent reaches 65536.
ParseF64(tok) ==
    LET signed  == Len(tok) > 0 /\ Head(tok) \in {"+", "-"}
        neg     == signed /\ Head(tok) = "-"
        body    == IF signed THEN Tail(tok) ELSE tok
        lower   == to_ascii_lowercase(body)
        e_at    == FirstOf(body, {"e", "E"})
        number  == IF e_at = 0 THEN body ELSE SubSeq(body, 1, e_at - 1)
        exp_tok == IF e_at = 0 THEN <<>> ELSE SubSeq(body, e_at + 1, Len(body))
        exp_neg == Len(exp_tok) > 0 /\ Head(exp_tok) = "-"
        exp_dig == IF Len(exp_tok) > 0 /\ Head(exp_tok) \in {"+", "-"}
                   THEN Tail(exp_tok) ELSE exp_tok
        dot_at  == FirstOf(number, {"."})
        whole   == IF dot_at = 0 THEN number ELSE SubSeq(number, 1, dot_at - 1)
        frac    == IF dot_at = 0 THEN <<>> ELSE SubSeq(number, dot_at + 1, Len(number))
        exp_val == IF e_at = 0 THEN 0
                   ELSE IF exp_neg THEN 0 - ExponentValue(exp_dig) ELSE ExponentValue(exp_dig)
    IN  IF lower \in {<<"i", "n", "f">>, <<"i", "n", "f", "i", "n", "i", "t", "y">>}
        THEN Some(Infinity(neg))
        ELSE IF lower = <<"n", "a", "n">> THEN Some(NaN)
        ELSE IF e_at # 0 /\ ~AllDigits(exp_dig) THEN None
        ELSE IF \E k \in 1..Len(whole \o frac) : ~IsDigit((whole \o frac)[k]) THEN None
        ELSE IF Len(whole) + Len(frac) = 0 THEN None
        ELSE Some(NearestF64(neg, whole \o frac, exp_val - Len(frac)))

IsNormalComponent(comp) == Len(comp) > 0 /\ comp # <<".">>

\* The last of the components of a path, None when there is none or it is ".."
LastComponent(comps) ==
    IF Len(comps) = 0 THEN None
    ELSE IF comps[Len(comps)] = <<".", ".">> THEN None
    ELSE Some(comps[Len(comps)])

\* Path::file_name(): the last component, None when there is none or it is ".."
file_name(path) == LastComponent(SelectSeq(SplitAt(path, {"/"}), IsNormalComponent))

LastDot(name) ==
    CHOOSE k \in 1..Len(name) :
        name[k] = "." /\ \A l \in (k + 1)..Len(name) : name[l] # "."

\* What follows the last '.' of a file name, unless there is no name, the
\* name has no '.' or its only '.' is its first character
ExtensionOf(name) ==
    IF ~name.some THEN None
    ELSE IF \A k \in 1..Len(name.val) : name.val[k] # "." THEN None
    ELSE IF LastDot(name.val) = 1 THEN None
    ELSE Some(SubSeq(name.val, LastDot(name.val) + 1, Len(name.val)))

\* Path::extension()
extension(path) == ExtensionOf(file_name(path))

\* The file name without its extension
StemOf(name) ==
    IF ~name.some THEN None
    ELSE IF \A k \in 1..Len(name.val) : name.val[k] # "." THEN name
    ELSE IF LastDot(name.val) = 1 THEN name
    ELSE Some(SubSeq(name.val, 1, LastDot(name.val) - 1))

\* Path::file_stem()
file_stem(path) == StemOf(file_name(path))

CompressionSuffixes ==
    {<<"g", "z">>, <<"b", "z", "2">>, <<"x", "z">>, <<"z", "s", "t">>, <<"z", "i", "p">>}

\* guess_separator without the lower-casing of the extensions
guess_separator_case_sensitive(path) ==
    LET first == extension(path)
        ext ==
            IF ~first.some THEN <<>>
            ELSE IF first.val \in CompressionSuffixes
                 THEN LET stem  == file_stem(path)
                          inner == extension(stem.val)
                      IN  IF inner.some THEN inner.val ELSE <<>>
                 ELSE first.val
    IN  IF ext = <<"d", "a", "t">> THEN " "
        ELSE IF ext = <<"c", "s", "v">> THEN ","
        ELSE IF ext \in {<<"t", "s", "v">>, <<"t", "a", "b">>} THEN "\t"
        ELSE IF ext = <<"p", "s", "v">> THEN "|"
        ELSE IF ext = <<"s", "s", "v">> THEN ";"
        ELSE " "

guess_separator(path) ==
    LET first == extension(path)
        ext ==
            IF ~first.some THEN <<>>
            ELSE IF to_ascii_lowercase(first.val) \in CompressionSuffixes
                 THEN LET stem  == file_stem(path)
                          inner == extension(stem.val)
                      IN  IF inner.some THEN to_ascii_lowercase(inner.val) ELSE <<>>
                 ELSE to_ascii_lowercase(first.val)
    IN  IF ext = <<"d", "a", "t">> THEN " "
        ELSE IF ext = <<"c", "s", "v">> THEN ","
        ELSE IF ext \in {<<"t", "s", "v">>, <<"t", "a", "b">>} THEN "\t"
        ELSE IF ext = <<"p", "s", "v">> THEN "|"
        ELSE IF ext = <<"s", "s", "v">> THEN ";"
        ELSE " "

----------------------------------------------------------------------------
(* Files and the line parser *)

IoError(kind) == [type |-> "IoError", kind |-> kind]

\* A disk is the directory tree the program runs in: entries, a function
\* from the names of an entry from the root down to what is stored there,
\* and cwd, the names of the working directory; the root is a directory
\* and needs no entry.  An entry is a regular file with its text, stored
\* as UTF-8 or as the gzip compression of it, or a directory.  There are
\* no links and every entry may be read.
StoredFile(text, gzip) == [dir |-> FALSE, text |-> text, gzip |-> gzip]

Directory == [dir |-> TRUE, text |-> <<>>, gzip |-> FALSE]

\* The ASCII characters that are written as themselves; the others, the
\* grave accent U+0060 among them, go by their names
Ascii ==
    {"\t", "\n", "\r", "\f", " ", "!", "\"", "#", "$", "%", "&", "'", "(", ")",
     "*", "+", ",", "-", ".", "/", "0", "1", "2", "3", "4", "5", "6", "7",
     "8", "9", ":", ";", "<", "=", ">", "?", "@", "A", "B", "C", "D", "E",
     "F", "G", "H", "I", "J", "K", "L", "M", "N", "O", "P", "Q", "R", "S",
     "T", "U", "V", "W", "X", "Y", "Z", "[", "\\", "]", "^", "_", "a",
     "b", "c", "d", "e", "f", "g", "h", "i", "j", "k", "l", "m", "n", "o",
     "p", "q", "r", "s", "t", "u", "v", "w", "x", "y", "z", "{", "|", "}",
     "~"}

\* The name of the character with code point cp < 2^16
CodePointName(cp) ==
    LET hex == <<"0", "1", "2", "3", "4", "5", "6", "7", "8", "9", "A", "B", "C", "D", "E", "F">>
    IN  "U+" \o hex[((cp \div 4096) % 16) + 1] \o hex[((cp \div 256) % 16) + 1]
             \o hex[((cp \div 16) % 16) + 1] \o hex[(cp % 16) + 1]

TwoByteNames == {CodePointName(cp) : cp \in 128..2047}

\* The UTF-8 length of a character: one byte up to U+007F, two up to U+07FF,
\* three up to U+FFFF, four above.  A character written as itself is ASCII
\* or between U+0080 and U+00FF.
Utf8Len(c) ==
    IF Len(c) = 1 THEN (IF c \in Ascii THEN 1 ELSE 2)
    ELSE IF c \in {CodePointName(cp) : cp \in 0..127} THEN 1
    ELSE IF c \in TwoByteNames THEN 2
    ELSE IF Len(c) = 6 THEN 3
    ELSE 4

\* The UTF-8 length of the characters lo..hi of a text
RECURSIVE BytesIn(_, _, _)
BytesIn(text, lo, hi) ==
    IF lo > hi THEN 0
    ELSE IF lo = hi THEN Utf8Len(text[lo])
    ELSE BytesIn(text, lo, (lo + hi) \div 2) + BytesIn(text, ((lo + hi) \div 2) + 1, hi)

\* BufRead::lines(): a line ends at '\n'; the '\n', and a '\r' before it, are
\* not part of the line; what follows the last '\n' is a line when it is not
\* empty.
BufRead_lines(text) ==
    LET ends  == {i \in 1..Len(text) : text[i] = "\n"}
        count == Cardinality(ends)
                     + (IF Len(text) > 0 /\ text[Len(text)] # "\n" THEN 1 ELSE 0)
        EndOf(k) == IF k > Cardinality(ends) THEN Len(text) + 1
                    ELSE CHOOSE i \in ends : Cardinality({j \in ends : j < i}) = k - 1
        Line(k) == LET from == IF k = 1 THEN 1 ELSE EndOf(k - 1) + 1
                       to   == EndOf(k) - 1
                       cr   == k <= Cardinality(ends) /\ to >= from /\ text[to] = "\r"
                   IN  SubSeq(text, from, IF cr THEN to - 1 ELSE to)
    IN  [k \in 1..count |-> Line(k)]

\* The way of open(2) through the names k.. of a path, from the directory
\* at: "." stays, ".." goes up and stays at the root, a name of more than
\* 255 bytes is too long, a name the directory does not hold is not found,
\* and what is not a directory cannot be walked through.
RECURSIVE Walk(_, _, _, _)
Walk(disk, at, names, k) ==
    IF k > Len(names) THEN Ok(at)
    ELSE IF names[k] = <<".">> THEN Walk(disk, at, names, k + 1)
    ELSE IF names[k] = <<".", ".">>
    THEN Walk(disk, SubSeq(at, 1, Len(at) - 1), names, k + 1)
    ELSE IF BytesIn(names[k], 1, Len(names[k])) > 255 THEN Err(IoError("InvalidFilename"))
    ELSE IF Append(at, names[k]) \notin DOMAIN disk.entries THEN Err(IoError("NotFound"))
    ELSE IF k < Len(names) /\ ~disk.entries[Append(at, names[k])].dir
    THEN Err(IoError("NotADirectory"))
    ELSE Walk(disk, Append(at, names[k]), names, k + 1)

\* File::open: a path with a NUL in it is no path for the system, the empty
\* path names nothing, a path of 4096 bytes or more is too long; the others
\* are walked from the root when they begin with '/', from the working
\* directory otherwise.  A regular file is no directory to end a path with
\* '/', and a directory opens like a file.
File_open(path, disk) ==
    IF \E k \in 1..Len(path) : path[k] = "U+0000" THEN Err(IoError("InvalidInput"))
    ELSE IF Len(path) = 0 THEN Err(IoError("NotFound"))
    ELSE IF BytesIn(path, 1, Len(path)) >= 4096 THEN Err(IoError("InvalidFilename"))
    ELSE LET found == Walk(disk, IF path[1] = "/" THEN <<>> ELSE disk.cwd,
                           SelectSeq(SplitAt(path, {"/"}), NonEmpty), 1)
         IN  IF ~IsOk(found) THEN found
             ELSE IF Len(found.val) = 0 THEN Ok(Directory)
             ELSE IF ~disk.entries[found.val].dir /\ path[Len(path)] = "/"
             THEN Err(IoError("NotADirectory"))
             ELSE Ok(disk.entries[found.val])

\* open_file: the reader of an opened file, a gzip decoder when the
\* extension is "gz" (compared exactly).  Nothing is read yet.
open_file(path, disk) ==
    IF Len(path) = 0 THEN Err(IoError("InvalidInput"))
    ELSE LET opened == File_open(path, disk)
         IN  IF ~IsOk(opened) THEN opened
             ELSE Ok([gz   |-> extension(path).some /\ extension(path).val = <<"g", "z">>,
                      file |-> opened.val])

\* reader.lines() read to the end, every line taken with '?': the first read
\* fails on a directory, on text behind a gzip decoder and on compressed
\* bytes read as text, and then no line comes out.  GzDecoder reads a header
\* of 10 bytes: text of at least 10 bytes is an invalid header
\* (InvalidInput), shorter text ends before the header does (UnexpectedEof).
\* Compressed bytes are no UTF-8 (InvalidData).
ReadLines(reader) ==
    IF reader.file.dir THEN Err(IoError("IsADirectory"))
    ELSE IF reader.gz /\ ~reader.file.gzip
    THEN IF BytesIn(reader.file.text, 1, Len(reader.file.text)) >= 10
         THEN Err(IoError("InvalidInput"))
         ELSE Err(IoError("UnexpectedEof"))
    ELSE IF ~reader.gz /\ reader.file.gzip THEN Err(IoError("InvalidData"))
    ELSE Ok(BufRead_lines(reader.file.text))

Tokenize(line, sep) ==
    IF sep = " " THEN split_whitespace(line) ELSE split(line, sep)

\* The loop of parse_plain: the comment test looks at the line as read, not
\* at the trimmed line.
RECURSIVE ParseLoop(_, _, _, _)
ParseLoop(rest, sep, header, first_passed) ==
    IF Len(rest) = 0 THEN <<>>
    ELSE LET line == Head(rest)
         IN  IF Len(trim(line)) = 0 \/ starts_with(line, "#")
             THEN ParseLoop(Tail(rest), sep, header, first_passed)
             ELSE IF ~first_passed /\ header
             THEN ParseLoop(Tail(rest), sep, header, TRUE)
             ELSE <<Tokenize(line, sep)>>
                      \o ParseLoop(Tail(rest), sep, header, first_passed)

parse_plain(path, disk, sep, header) ==
    LET reader == open_file(path, disk)
    IN  IF ~IsOk(reader) THEN reader
        ELSE LET read == ReadLines(reader.val)
             IN  IF ~IsOk(read) THEN read
                 ELSE Ok(ParseLoop(read.val, sep, header, FALSE))

----------------------------------------------------------------------------
(* Indexer: label_to_index is a function from labels to indices *)

Indexer_new == [label_to_index |-> [l \in {} |-> 0]]

Known(self) == DOMAIN self.label_to_index

Insert(self, label, idx) ==
    [label_to_index |->
        [l \in Known(self) \cup {label} |->
            IF l = label THEN idx ELSE self.label_to_index[l]]]

\* add that gives a label the next index at every call
add_reassigns(self, label) == Insert(self, label, Cardinality(Known(self)))

add(self, label) ==
    IF label \in Known(self) THEN self
    ELSE Insert(self, label, Cardinality(Known(self)))

\* The index add() returns: the stored one, or the next free one
add_returns(self, label) ==
    IF label \in Known(self) THEN self.label_to_index[label]
    ELSE Cardinality(Known(self))

\* add_explicit as insert(): the last index given for a label stays
add_explicit_overwrites(self, label, idx) == Insert(self, label, idx)

\* entry(label).or_insert(idx): the first index given for a label stays
add_explicit(self, label, idx) ==
    IF label \in Known(self) THEN self ELSE Insert(self, label, idx)

\* index(): the expect() panics on a label that was never added
index(self, label) ==
    IF label \in Known(self) THEN Ok(self.label_to_index[label])
    ELSE Panic("Label not found in indexer")

max_index(self) == Cardinality(Known(self))

\* The orders in which a HashMap with these keys can be iterated
Orders(S) ==
    {ord \in [1..Cardinality(S) -> S] :
        \A i, j \in 1..Cardinality(S) : i # j => ord[i] # ord[j]}

RECURSIVE StoreInOrder(_, _, _)
StoreInOrder(vec, self, ord) ==
    IF Len(ord) = 0 THEN vec
    ELSE StoreInOrder([vec EXCEPT ![self.label_to_index[Head(ord)] + 1] = Head(ord)],
                      self, Tail(ord))

\* to_vec() when the map is iterated in the order ord: result[idx] = label
\* for every entry; an index that is not below the number of labels is out
\* of bounds of the result and panics.  Two labels with one index leave the
\* one stored last, and a slot no label has keeps "".
to_vec(self, ord) ==
    LET n == Cardinality(Known(self))
    IN  IF \E l \in Known(self) : self.label_to_index[l] >= n
        THEN Panic("index out of bounds: result[idx]")
        ELSE Ok(StoreInOrder([k \in 1..n |-> <<>>], self, ord))

----------------------------------------------------------------------------
(* DataMatrixBuilder::from_file, triplet and quintuple form *)

ParseError(line, content) == [type |-> "ParseError", line |-> line, content |-> content]

NotEnoughColumns(line, needed, content) ==
    [type |-> "NotEnoughColumns", line |-> line, needed |-> needed, content |-> content]

\* parts[k] on a Vec: an index past the end panics
HasPart(parts, k) == k < Len(parts)

Part(parts, k) == parts[k + 1]

OutOfBounds == Panic("index out of bounds: parts[idx]")

Indexers(row, col) == [row_indexer |-> row, col_indexer |-> col]

\* One turn of the first loop, explicit indices (index_columns set)
ExplicitStep(self, ix, parts, line_no) ==
    LET r_idx == self.row_idx_col.val
        c_idx == self.col_idx_col.val
    IN  IF ~HasPart(parts, r_idx) THEN OutOfBounds
        ELSE IF ~ParseUsize(Part(parts, r_idx)).some
        THEN Err(ParseError(line_no, Part(parts, r_idx)))
        ELSE IF ~HasPart(parts, c_idx) THEN OutOfBounds
        ELSE IF ~ParseUsize(Part(parts, c_idx)).some
        THEN Err(ParseError(line_no, Part(parts, c_idx)))
        ELSE IF ~HasPart(parts, self.row_label_col) THEN OutOfBounds
        ELSE IF ~HasPart(parts, self.col_label_col) THEN OutOfBounds
        ELSE LET row_idx == ParseUsize(Part(parts, r_idx)).val
                 col_idx == ParseUsize(Part(parts, c_idx)).val
                 row1 == add_explicit(ix.row_indexer,
                                      Part(parts, self.row_label_col), row_idx)
             IN  IF self.symmetric
                 THEN Ok(Indexers(add_explicit(row1, Part(parts, self.col_label_col), col_idx),
                                  ix.col_indexer))
                 ELSE Ok(Indexers(row1,
                                  add_explicit(ix.col_indexer,
                                               Part(parts, self.col_label_col), col_idx)))

\* One turn of the first loop, indices in first-seen order
AutoStep(self, ix, parts) ==
    IF ~HasPart(parts, self.row_label_col) THEN OutOfBounds
    ELSE IF ~HasPart(parts, self.col_label_col) THEN OutOfBounds
    ELSE LET row1 == add(ix.row_indexer, Part(parts, self.row_label_col))
         IN  IF self.symmetric
             THEN Ok(Indexers(add(row1, Part(parts, self.col_label_col)), ix.col_indexer))
             ELSE Ok(Indexers(row1, add(ix.col_indexer, Part(parts, self.col_label_col))))

\* The first loop over the parsed lines; it stops at the first error or panic
RECURSIVE BuildIndexers(_, _, _, _)
BuildIndexers(self, lines, line_no, ix) ==
    IF line_no >= Len(lines) THEN Ok(ix)
    ELSE LET step == IF self.row_idx_col.some /\ self.col_idx_col.some
                     THEN ExplicitStep(self, ix, lines[line_no + 1], line_no)
                     ELSE AutoStep(self, ix, lines[line_no + 1])
         IN  IF ~IsOk(step) THEN step
             ELSE BuildIndexers(self, lines, line_no + 1, step.val)

\* vec![vec![0.0; n_cols]; n_rows]
Zeros(n_rows, n_cols) == [i \in 1..n_rows |-> [j \in 1..n_cols |-> F64(0)]]

InGrid(data, i, j) == i < Len(data) /\ j < Len(data[i + 1])

\* Store writing the cell only, never its mirror
StoreUnmirrored(self, data, i, j, value) ==
    IF ~InGrid(data, i, j)
    THEN Panic("index out of bounds: data[i_row][j_col]")
    ELSE Ok([data EXCEPT ![i + 1][j + 1] = value])

\* data[i_row][j_col] = value; if self.symmetric { data[j_col][i_row] = value }
Store(self, data, i, j, value) ==
    IF ~InGrid(data, i, j)
    THEN Panic("index out of bounds: data[i_row][j_col]")
    ELSE LET data1 == [data EXCEPT ![i + 1][j + 1] = value]
         IN  IF ~self.symmetric THEN Ok(data1)
             ELSE IF ~InGrid(data1, j, i)
             THEN Panic("index out of bounds: data[j_col][i_row]")
             ELSE Ok([data1 EXCEPT ![j + 1][i + 1] = value])

\* One turn of the second loop
FillStep(self, ix, data, parts, line_no) ==
    LET i_row == index(ix.row_indexer, Part(parts, self.row_label_col))
        j_col == index(ix.col_indexer, Part(parts, self.col_label_col))
    IN  IF ~HasPart(parts, self.row_label_col) THEN OutOfBounds
        ELSE IF ~IsOk(i_row) THEN i_row
        ELSE IF ~HasPart(parts, self.col_label_col) THEN OutOfBounds
        ELSE IF ~IsOk(j_col) THEN j_col
        ELSE IF ~HasPart(parts, self.data_col) THEN OutOfBounds
        ELSE IF ~ParseF64(Part(parts, self.data_col)).some
        THEN Err(ParseError(line_no, Part(parts, self.data_col)))
        ELSE Store(self, data, i_row.val, j_col.val,
                   ParseF64(Part(parts, self.data_col)).val)

\* The second loop over the parsed lines
RECURSIVE FillGrid(_, _, _, _, _)
FillGrid(self, lines, line_no, ix, data) ==
    IF line_no >= Len(lines) THEN Ok(data)
    ELSE LET step == FillStep(self, ix, data, lines[line_no + 1], line_no)
         IN  IF ~IsOk(step) THEN step
             ELSE FillGrid(self, lines, line_no + 1, ix, step.val)

\* from_file after parse_plain, for one iteration order of each indexer's map
BuildFromLines(self, lines, ord_row, ord_col) ==
    LET first == BuildIndexers(self, lines, 0, Indexers(Indexer_new, Indexer_new))
    IN  IF ~IsOk(first) THEN first
        ELSE LET row_indexer == first.val.row_indexer
                 col_indexer == IF self.symmetric THEN row_indexer
                                ELSE first.val.col_indexer
                 ix          == Indexers(row_indexer, col_indexer)
                 zeros       == Zeros(max_index(row_indexer), max_index(col_indexer))
                 row_labels  == to_vec(row_indexer, ord_row)
                 col_labels  == to_vec(col_indexer, ord_col)
             IN  IF ~IsOk(row_labels) THEN row_labels
                 ELSE IF ~IsOk(col_labels) THEN col_labels
                 ELSE LET filled == FillGrid(self, lines, 0, ix, zeros)
                      IN  IF ~IsOk(filled) THEN filled
                          ELSE DataMatrix_new(filled.val, row_labels.val, col_labels.val)

\* The label sets of the two indexers after the first loop, {} when it fails
FinalIndexers(self, lines) ==
    LET first == BuildIndexers(self, lines, 0, Indexers(Indexer_new, Indexer_new))
    IN  IF ~IsOk(first) THEN Indexers(Indexer_new, Indexer_new)
        ELSE Indexers(first.val.row_indexer,
                      IF self.symmetric THEN first.val.row_indexer
                      ELSE first.val.col_indexer)

----------------------------------------------------------------------------
(* DataMatrixBuilder::read_one_column, the flat single-column form *)

\* format!("Expected {}^2 = {} values, but found {}", n, n * n, values.len()):
\* the message is kept as its three numbers
CountMismatch(n, found) == [expected_n |-> n, expected |-> n * n, found |-> found]

\* The loop over the parsed lines: the value of column col_idx of each line
RECURSIVE ReadValues(_, _, _, _)
ReadValues(rows, line_num, col_idx, values) ==
    IF line_num >= Len(rows) THEN Ok(values)
    ELSE LET parts == rows[line_num + 1]
         IN  IF col_idx >= Len(parts)
             THEN Err(NotEnoughColumns(line_num + 1, col_idx + 1, parts))
             ELSE IF ~ParseF64(Part(parts, col_idx)).some
             THEN Err(ParseError(line_num + 1, Part(parts, col_idx)))
             ELSE ReadValues(rows, line_num + 1, col_idx,
                             Append(values, ParseF64(Part(parts, col_idx)).val))

\* The count test when only too few values are refused
CountAtLeast(n, found) == n * n <= found

\* n * n != values.len() refuses the file
CountMatches(n, found) == n * n = found

read_one_column(self, path, disk, column, given) ==
    LET rows == parse_plain(path, disk, " ", self.skip_header)
    IN  IF ~IsOk(rows) THEN rows
        ELSE LET values == ReadValues(rows.val, 0, column, <<>>)
                 n      == Len(given)
             IN  IF ~IsOk(values) THEN values
                 ELSE IF ~CountMatches(n, Len(values.val))
                 THEN Err(ParseError(0, CountMismatch(n, Len(values.val))))
                 ELSE DataMatrix_new(RowMajor(values.val, n), given, given)

\* from_file: every result the call can return.  The result depends on the
\* order in which to_vec meets the entries of a HashMap; the clone made for
\* symmetric builds has the layout of the original, hence the same order.
from_file(self, path, disk) ==
    IF self.labels.some
    THEN {read_one_column(self, path, disk, self.data_col, self.labels.val)}
    ELSE LET sep   == IF self.separator.some THEN self.separator.val
                      ELSE guess_separator(path)
             lines == parse_plain(path, disk, sep, self.skip_header)
         IN  IF ~IsOk(lines) THEN {lines}
             ELSE LET ix == FinalIndexers(self, lines.val)
                  IN  {BuildFromLines(self, lines.val, ord_row, ord_col) :
                          <<ord_row, ord_col>> \in
                              {o \in Orders(Known(ix.row_indexer))
                                        \X Orders(Known(ix.col_indexer)) :
                                  self.symmetric => o[1] = o[2]}}

----------------------------------------------------------------------------
(* Actions: the setters configure the builder until a terminal call is made *)

Set_label_columns(row, col) ==
    /\ call = "none"
    /\ builder' = label_columns(builder, row, col)
    /\ UNCHANGED <<input, call, result, objects, indexer>>

Set_labels(given) ==
    /\ call = "none"
    /\ builder' = labels(builder, given)
    /\ UNCHANGED <<input, call, result, objects, indexer>>

Set_data_column(val) ==
    /\ call = "none"
    /\ builder' = data_column(builder, val)
    /\ UNCHANGED <<input, call, result, objects, indexer>>

Set_index_columns(row_idx, col_idx) ==
    /\ call = "none"
    /\ builder' = index_columns(builder, row_idx, col_idx)
    /\ UNCHANGED <<input, call, result, objects, indexer>>

Set_separator(sep) ==
    /\ call = "none"
    /\ builder' = separator(builder, sep)
    /\ UNCHANGED <<input, call, result, objects, indexer>>

Set_skip_header(if_header) ==
    /\ call = "none"
    /\ builder' = skip_header(builder, if_header)
    /\ UNCHANGED <<input, call, result, objects, indexer>>

Set_symmetric(if_symmetric) ==
    /\ call = "none"
    /\ builder' = symmetric(builder, if_symmetric)
    /\ UNCHANGED <<input, call, result, objects, indexer>>

Call_DataMatrix_new ==
    /\ call = "none"
    /\ call' = "DataMatrix::new"
    /\ result' = DataMatrix_new(input.data, input.row_labels, input.col_labels)
    /\ UNCHANGED <<builder, input, objects, indexer>>

Call_from_data ==
    /\ call = "none"
    /\ call' = "from_data"
    /\ result' = from_data(builder, input.data)
    /\ UNCHANGED <<builder, input, objects, indexer>>

Call_from_file ==
    /\ call = "none"
    /\ call' = "from_file"
    /\ result' \in from_file(builder, input.path, input.disk)
    /\ UNCHANGED <<builder, input, objects, indexer>>

\* parse_plain as from_file calls it: the configured or guessed separator
\* and the skip_header flag of the builder
Call_parse_plain ==
    /\ call = "none"
    /\ call' = "parse_plain"
    /\ result' = parse_plain(input.path, input.disk,
                             IF builder.separator.some THEN builder.separator.val
                             ELSE guess_separator(input.path),
                             builder.skip_header)
    /\ UNCHANGED <<builder, input, objects, indexer>>

Call_guess_separator ==
    /\ call = "none"
    /\ call' = "guess_separator"
    /\ result' = Ok(guess_separator(input.path))
    /\ UNCHANGED <<builder, input, objects, indexer>>

----------------------------------------------------------------------------
(* read_matrix, the reader of three-column files that precedes the builder *)

\* label_to_index.entry(key).or_insert_with(|| current_index++)
Lookup(st, key) ==
    IF key \in DOMAIN st.label_to_index THEN st
    ELSE [st EXCEPT !.label_to_index =
                        [l \in DOMAIN st.label_to_index \cup {key} |->
                            IF l = key THEN st.current_index ELSE st.label_to_index[l]],
                    !.current_index = st.current_index + 1]

\* The entries of a line that are never mirrored
EntriesUnmirrored(i, j, value, make_symmetric) == << <<i, j, value>> >>

\* entries.push((i, j, value)); if make_symmetric && i != j { push((j, i, value)) }
Entries(i, j, value, make_symmetric) ==
    IF make_symmetric /\ i # j THEN << <<i, j, value>>, <<j, i, value>> >>
    ELSE << <<i, j, value>> >>

\* The loop over the lines of the file; line_num counts every line from 0
RECURSIVE ReadMatrixLoop(_, _, _, _, _, _, _)
ReadMatrixLoop(lines, line_num, col_i, col_j, col_val, make_symmetric, st) ==
    IF line_num >= Len(lines) THEN Ok(st)
    ELSE LET line    == trim(lines[line_num + 1])
             max_col == Max(Max(col_i, col_j), col_val)
             parts   == split_whitespace(line)
         IN  IF Len(line) = 0 \/ starts_with(line, "#")
             THEN ReadMatrixLoop(lines, line_num + 1, col_i, col_j, col_val, make_symmetric, st)
             ELSE IF Len(parts) <= max_col
             THEN Err(NotEnoughColumns(line_num + 1, max_col + 1, line))
             ELSE IF ~ParseF64(Part(parts, col_val)).some
             THEN Err(ParseError(line_num + 1, line))
             ELSE LET st1 == Lookup(st, Part(parts, col_i))
                      i   == st1.label_to_index[Part(parts, col_i)]
                      st2 == Lookup(st1, Part(parts, col_j))
                      j   == st2.label_to_index[Part(parts, col_j)]
                      st3 == [st2 EXCEPT !.entries =
                                 st2.entries \o Entries(i, j, ParseF64(Part(parts, col_val)).val,
                                                        make_symmetric)]
                  IN  ReadMatrixLoop(lines, line_num + 1, col_i, col_j, col_val,
                                     make_symmetric, st3)

\* for (i, j, value) in entries { data[i][j] = value }
RECURSIVE StoreEntries(_, _)
StoreEntries(data, entries) ==
    IF Len(entries) = 0 THEN data
    ELSE StoreEntries([data EXCEPT ![Head(entries)[1] + 1][Head(entries)[2] + 1] =
                                        Head(entries)[3]],
                      Tail(entries))

\* read_matrix reads the file as it is stored, whatever its name: the bytes
\* of a gzip-compressed file are no text and the first read fails.  The
\* indices of the map are 0..n-1, one label each, so labels[index] = label
\* gives the same vector in every iteration order of the map.
read_matrix(path, disk, col_i, col_j, col_val, make_symmetric) ==
    LET opened == File_open(path, disk)
        text   == IF IsOk(opened) THEN ReadLines([gz |-> FALSE, file |-> opened.val]) ELSE opened
        read   == IF ~IsOk(text) THEN text
                  ELSE ReadMatrixLoop(text.val, 0, col_i, col_j, col_val, make_symmetric,
                                      [label_to_index |-> [l \in {} |-> 0],
                                       current_index |-> 0,
                                       entries |-> <<>>])
    IN  IF ~IsOk(read) THEN read
        ELSE LET n     == read.val.current_index
                 data  == StoreEntries(Zeros(n, n), read.val.entries)
                 map   == read.val.label_to_index
                 given == [k \in 1..n |-> CHOOSE l \in DOMAIN map : map[l] = k - 1]
             IN  DataMatrix_new(data, given, given)

Call_read_matrix ==
    /\ call = "none"
    /\ call' = "read_matrix"
    /\ result' = read_matrix(input.path, input.disk, input.col_i, input.col_j,
                             input.col_val, input.make_symmetric)
    /\ UNCHANGED <<builder, input, objects, indexer>>

MaxAdds == 4

Indexer_add(label) ==
    /\ Len(input) < MaxAdds
    /\ indexer' = add(indexer, label)
    /\ call' = "add"
    /\ input' = Append(input, label)
    /\ result' = Ok(add_returns(indexer, label))
    /\ UNCHANGED <<builder, objects>>

MaxExplicitAdds == 3

Indexer_add_explicit(label, idx) ==
    /\ Len(input) < MaxExplicitAdds
    /\ indexer' = add_explicit(indexer, label, idx)
    /\ call' = "add_explicit"
    /\ input' = Append(input, <<label, idx>>)
    /\ result' = Ok(<<>>)
    /\ UNCHANGED <<builder, objects>>

----------------------------------------------------------------------------
(* The Python binding: every method takes &self and works on a clone *)

PyDataMatrixBuilder(inner) == [inner |-> inner]

PyDataMatrixBuilder_new == PyDataMatrixBuilder(DataMatrixBuilder_new)

py_label_columns(self, row, col) == PyDataMatrixBuilder(label_columns(self.inner, row, col))

py_data_column(self, val) == PyDataMatrixBuilder(data_column(self.inner, val))

py_index_columns(self, row_idx, col_idx) ==
    PyDataMatrixBuilder(index_columns(self.inner, row_idx, col_idx))

py_separator(self, sep) == PyDataMatrixBuilder(separator(self.inner, sep))

py_skip_header(self, if_header) == PyDataMatrixBuilder(skip_header(self.inner, if_header))

py_symmetric(self, if_symmetric) == PyDataMatrixBuilder(symmetric(self.inner, if_symmetric))

py_labels(self, given) == PyDataMatrixBuilder(labels(self.inner, given))

MaxObjects == 4

\* A method call on the object o returns a new object; nothing else is stored
Returns(name, o, args, new) ==
    /\ Len(objects) < MaxObjects
    /\ objects' = Append(objects, new)
    /\ call' = name
    /\ input' = [self |-> o, args |-> args]
    /\ result' = Ok(Len(objects) + 1)
    /\ UNCHANGED <<builder, indexer>>

Py_new == Returns("new", 0, <<>>, PyDataMatrixBuilder_new)

Py_label_columns(o, row, col) ==
    Returns("label_columns", o, <<row, col>>, py_label_columns(objects[o], row, col))

Py_data_column(o, val) ==
    Returns("data_column", o, <<val>>, py_data_column(objects[o], val))

Py_index_columns(o, row_idx, col_idx) ==
    Returns("index_columns", o, <<row_idx, col_idx>>,
            py_index_columns(objects[o], row_idx, col_idx))

Py_separator(o, sep) ==
    Returns("separator", o, <<sep>>, py_separator(objects[o], sep))

Py_skip_header(o, if_header) ==
    Returns("skip_header", o, <<if_header>>, py_skip_header(objects[o], if_header))

Py_symmetric(o, if_symmetric) ==
    Returns("symmetric", o, <<if_symmetric>>, py_symmetric(objects[o], if_symmetric))

Py_labels(o, given) ==
    Returns("labels", o, <<given>>, py_labels(objects[o], given))

----------------------------------------------------------------------------
(* Bounded inputs *)

SeqsUpTo(S, n) == UNION {[1..k -> S] : k \in 0..n}

RECURSIVE Join(_, _)
Join(tokens, sep) ==
    IF Len(tokens) = 0 THEN <<>>
    ELSE IF Len(tokens) = 1 THEN tokens[1]
    ELSE tokens[1] \o <<sep>> \o Join(Tail(tokens), sep)

\* The text of the lines, every line ended by eol
RECURSIVE TextOf(_, _)
TextOf(lines, eol) ==
    IF Len(lines) = 0 THEN <<>> ELSE Head(lines) \o eol \o TextOf(Tail(lines), eol)

DatPath == <<"m", ".", "d", "a", "t">>

\* A disk with nothing on it, and one that holds one entry, by that name in
\* the working directory, which is the root
EmptyDisk == [cwd |-> <<>>, entries |-> <<>>]

DiskOf(name, entry) == [cwd |-> <<>>, entries |-> (<<name>> :> entry)]

PlainFile(lines) == DiskOf(DatPath, StoredFile(TextOf(lines, <<"\n">>), FALSE))

\* What the path of the input names on its disk
Stored == File_open(input.path, input.disk)

\* The lines of the input file as a reader of its text yields them
FileLines ==
    IF IsOk(Stored) /\ ~Stored.val.dir THEN BufRead_lines(Stored.val.text) ELSE <<>>

----------------------------------------------------------------------------
(* DataMatrix::new on arbitrary grids and label lists *)

MaxRows == 2

MaxCols == 2

CellValues == {F64(0), F64(1)}

GridLabels == {<<"a">>, <<"b">>}

Grids == SeqsUpTo(SeqsUpTo(CellValues, MaxCols), MaxRows)

InitNew ==
    /\ builder = DataMatrixBuilder_new
    /\ input \in [data : Grids,
                  row_labels : SeqsUpTo(GridLabels, MaxRows),
                  col_labels : SeqsUpTo(GridLabels, MaxCols)]
    /\ call = "none"
    /\ result = NoResult
    /\ objects = <<>>
    /\ indexer = Indexer_new

NextNew == Call_DataMatrix_new

SpecNew == InitNew /\ [][NextNew]_vars

\* The shape invariant of the specification
ShapeHolds(data, row_labels, col_labels) ==
    /\ Len(data) = Len(row_labels)
    /\ \A i \in 1..Len(data) : Len(data[i]) = Len(col_labels)

\* C1: DataMatrix::new returns Ok exactly when the grid has as many rows as
\* there are row labels and every row is as long as the column-label list,
\* and returns IncorrectMatrixLabels for every other input.
C1_NewOkExactlyOnShape ==
    call = "DataMatrix::new" =>
        IF ShapeHolds(input.data, input.row_labels, input.col_labels)
        THEN IsOk(result)
        ELSE IsErr(result, "IncorrectMatrixLabels")

----------------------------------------------------------------------------
(* from_data on arbitrary value sequences *)

MaxData == 9

DataLabels == {<<>>, <<<<"a">>>>, <<<<"a">>, <<"b">>>>, <<<<"a">>, <<"b">>, <<"c">>>>}

InitData ==
    /\ builder = DataMatrixBuilder_new
    /\ input \in [data : SeqsUpTo(CellValues, MaxData)]
    /\ call = "none"
    /\ result = NoResult
    /\ objects = <<>>
    /\ indexer = Indexer_new

NextData ==
    \/ \E given \in DataLabels : Set_labels(given)
    \/ Call_from_data

SpecData == InitData /\ [][NextData]_vars

IsSquare(len) == \E n \in 0..len : n * n = len

Root(len) == CHOOSE n \in 0..len : n * n = len

\* C8: without labels, from_data returns WrongNumberOfData(len) if and only
\* if len is not a perfect square, and for every perfect square (0 included)
\* it returns Ok with an n x n matrix, n * n = len.
C8_FromDataSquareOrError ==
    (call = "from_data" /\ ~builder.labels.some) =>
        LET len == Len(input.data)
        IN  IF IsSquare(len)
            THEN /\ IsOk(result)
                 /\ nrows(result.val) = Root(len)
                 /\ \A i \in 1..Root(len) : Len(result.val.data[i]) = Root(len)
            ELSE result = Err(WrongNumberOfData(len))

DefaultLabel(prefix, k) == <<prefix[1], prefix[2], prefix[3], "-", DigitChars[k + 1]>>

\* C9: without labels and with n * n values, from_data yields the labels
\* row-1..row-n and col-1..col-n and get(i, j) = data[i * n + j].
C9_FromDataLabelsAndFill ==
    (call = "from_data" /\ ~builder.labels.some /\ IsSquare(Len(input.data))) =>
        LET n == Root(Len(input.data))
        IN  /\ IsOk(result)
            /\ result.val.row_labels = [k \in 1..n |-> DefaultLabel(<<"r", "o", "w">>, k)]
            /\ result.val.col_labels = [k \in 1..n |-> DefaultLabel(<<"c", "o", "l">>, k)]
            /\ \A i, j \in 0..(n - 1) :
                   get(result.val, i, j) = Some(input.data[i * n + j + 1])

\* The same statement for n >= 1
C9_FromDataLabelsAndFillNonEmpty ==
    (call = "from_data" /\ ~builder.labels.some /\ IsSquare(Len(input.data))
        /\ Len(input.data) > 0) =>
        LET n == Root(Len(input.data))
        IN  /\ IsOk(result)
            /\ result.val.row_labels = [k \in 1..n |-> DefaultLabel(<<"r", "o", "w">>, k)]
            /\ result.val.col_labels = [k \in 1..n |-> DefaultLabel(<<"c", "o", "l">>, k)]
            /\ \A i, j \in 0..(n - 1) :
                   get(result.val, i, j) = Some(input.data[i * n + j + 1])

\* C20: from_data with labels L configured and n * n values, n >= 1: when
\* L has n labels the result uses L for the rows and for the columns; when
\* it has not, the call returns IncorrectMatrixLabels; no matrix is
\* returned whose label count differs from its dimension.
C20_FromDataChecksLabelCount ==
    (call = "from_data" /\ builder.labels.some) =>
        /\ (IsSquare(Len(input.data)) /\ Root(Len(input.data)) >= 1) =>
               IF Len(builder.labels.val) = Root(Len(input.data))
               THEN /\ IsOk(result)
                    /\ result.val.row_labels = builder.labels.val
                    /\ result.val.col_labels = builder.labels.val
                    /\ nrows(result.val) = Root(Len(input.data))
               ELSE IsErr(result, "IncorrectMatrixLabels")
        /\ IsOk(result) =>
               /\ Len(result.val.row_labels) = nrows(result.val)
               /\ Len(result.val.col_labels) = ncols(result.val)

\* Four values and one label
C20_Witness ==
    /\ call = "from_data" /\ builder.labels.some
    /\ Len(input.data) = 4
    /\ Len(builder.labels.val) = 1
    /\ IsErr(result, "IncorrectMatrixLabels")

\* Four values and two labels
C20_WitnessFits ==
    /\ call = "from_data" /\ builder.labels.some
    /\ Len(input.data) = 4
    /\ IsOk(result)
    /\ result.val.row_labels = << <<"a">>, <<"b">> >>
    /\ result.val.col_labels = << <<"a">>, <<"b">> >>

----------------------------------------------------------------------------
(* from_file on three-column files *)

MaxTripletLines == 2

FileLabels == {<<"a">>, <<"b">>}

ValueTokens == {<<"1">>, <<"2">>}

\* Lines "label label value" over two labels, two lines that bring a third
\* label with the values 1.5 and -2e1, a line of two fields and a line whose
\* value is no number
TripletLines ==
    {Join(<<r, c, v>>, " ") : r \in FileLabels, c \in FileLabels, v \in ValueTokens}
        \cup {Join(<<<<"b">>, <<"c">>, <<"1", ".", "5">>>>, " "),
              Join(<<<<"c">>, <<"a">>, <<"-", "2", "e", "1">>>>, " "),
              Join(<<<<"a">>, <<"b">>>>, " "),
              Join(<<<<"a">>, <<"b">>, <<"x">>>>, " ")}

InitTriplet ==
    /\ builder = DataMatrixBuilder_new
    /\ input \in [path : {DatPath},
                  disk : {PlainFile(lines) : lines \in SeqsUpTo(TripletLines, MaxTripletLines)}]
    /\ call = "none"
    /\ result = NoResult
    /\ objects = <<>>
    /\ indexer = Indexer_new

NextTriplet ==
    \/ \E row, col \in 0..1 : Set_label_columns(row, col)
    \/ \E val \in 2..3 : Set_data_column(val)
    \/ \E b \in BOOLEAN : Set_symmetric(b)
    \/ Call_from_file

SpecTriplet == InitTriplet /\ [][NextTriplet]_vars

\* What parse_plain returns to from_file
ParsedFile ==
    parse_plain(input.path, input.disk,
                IF builder.separator.some THEN builder.separator.val
                ELSE guess_separator(input.path),
                builder.skip_header)

\* The lines from_file works on: what parse_plain returned, <<>> on an error
ParsedLines == IF IsOk(ParsedFile) THEN ParsedFile.val ELSE <<>>

TripletForm ==
    ~builder.labels.some /\ ~(builder.row_idx_col.some /\ builder.col_idx_col.some)

QuintupleForm ==
    ~builder.labels.some /\ builder.row_idx_col.some /\ builder.col_idx_col.some

RowLabelOf(parts) == Part(parts, builder.row_label_col)

ColLabelOf(parts) == Part(parts, builder.col_label_col)

ValueOf(parts) == ParseF64(Part(parts, builder.data_col)).val

SamePair(p, q) ==
    \/ RowLabelOf(p) = RowLabelOf(q) /\ ColLabelOf(p) = ColLabelOf(q)
    \/ RowLabelOf(p) = ColLabelOf(q) /\ ColLabelOf(p) = RowLabelOf(q)

\* The largest column from_file is configured to read
MaxReferencedColumn ==
    LET labelled == Max(Max(builder.row_label_col, builder.col_label_col), builder.data_col)
    IN  IF builder.row_idx_col.some /\ builder.col_idx_col.some
        THEN Max(labelled, Max(builder.row_idx_col.val, builder.col_idx_col.val))
        ELSE labelled

AllLinesLongEnough ==
    \A k \in 1..Len(ParsedLines) : Len(ParsedLines[k]) >= MaxReferencedColumn + 1

\* A well-formed file in triplet form: the file is read, every parsed line
\* has all configured columns and a number where the value is read
TripletWellFormed ==
    /\ IsOk(ParsedFile)
    /\ AllLinesLongEnough
    /\ \A k \in 1..Len(ParsedLines) : ParseF64(Part(ParsedLines[k], builder.data_col)).some

\* C2 as stated: a symmetric build of a well-formed three-column file gives,
\* for every parsed line (a, b, v), a matrix where get_by_label(a, b) =
\* get_by_label(b, a) and both are the value v of that line.
C2_SymmetricGivesEveryLineItsValue ==
    (call = "from_file" /\ TripletForm /\ builder.symmetric /\ TripletWellFormed) =>
        \A k \in 1..Len(ParsedLines) :
            LET parts == ParsedLines[k]
                a == RowLabelOf(parts)
                b == ColLabelOf(parts)
            IN  /\ IsOk(result)
                /\ get_by_label(result.val, a, b) = get_by_label(result.val, b, a)
                /\ get_by_label(result.val, a, b) = Some(ValueOf(parts))

\* C2 (amended): a symmetric build of a well-formed three-column file
\* gives, for every parsed line (a, b, v), a matrix where get_by_label(a, b)
\* = get_by_label(b, a), and both are the value, unchanged, of the last
\* parsed line whose labels are a and b in either order; that is v unless a
\* later line names the same pair.
C2_SymmetricGivesLastValueOfPair ==
    (call = "from_file" /\ TripletForm /\ builder.symmetric /\ TripletWellFormed) =>
        \A k \in 1..Len(ParsedLines) :
            LET parts == ParsedLines[k]
                a == RowLabelOf(parts)
                b == ColLabelOf(parts)
                last == CHOOSE l \in k..Len(ParsedLines) :
                            /\ SamePair(ParsedLines[l], parts)
                            /\ \A later \in (l + 1)..Len(ParsedLines) :
                                   ~SamePair(ParsedLines[later], parts)
            IN  /\ IsOk(result)
                /\ get_by_label(result.val, a, b) = get_by_label(result.val, b, a)
                /\ get_by_label(result.val, a, b) = Some(ValueOf(ParsedLines[last]))

\* A symmetric build of a well-formed file where a later line gives the
\* pair of an earlier line, the other way round, another value
C2_Witness ==
    /\ call = "from_file" /\ TripletForm /\ builder.symmetric /\ TripletWellFormed
    /\ IsOk(result)
    /\ \E k, l \in 1..Len(ParsedLines) :
           /\ k < l
           /\ RowLabelOf(ParsedLines[k]) = ColLabelOf(ParsedLines[l])
           /\ ColLabelOf(ParsedLines[k]) = RowLabelOf(ParsedLines[l])
           /\ RowLabelOf(ParsedLines[k]) # ColLabelOf(ParsedLines[k])
           /\ ValueOf(ParsedLines[k]) # ValueOf(ParsedLines[l])

\* C4: in triplet or quintuple form, a parsed line with fewer fields than the
\* largest configured column plus 1 makes the build return NotEnoughColumns
\* whose needed is that largest column plus 1.
C4_ShortLineIsNotEnoughColumns ==
    (/\ call = "from_file"
     /\ ~builder.labels.some
     /\ \E k \in 1..Len(ParsedLines) : Len(ParsedLines[k]) < MaxReferencedColumn + 1) =>
        /\ IsErr(result, "NotEnoughColumns")
        /\ result.error.needed = MaxReferencedColumn + 1

----------------------------------------------------------------------------
(* from_file on five-column files: labels, explicit indices, value *)

MaxQuintLines == 2

IndexPairs == {<<"0", "0">>, <<"0", "1">>, <<"1", "0">>, <<"0", "2">>}

\* usize::MAX + 1 in decimal
UsizeOverflow ==
    <<"1","8","4","4","6","7","4","4","0","7","3","7","0","9","5","5","1","6","1","6">>

\* Lines "label label row-index column-index value", a line whose row index
\* does not fit a usize, one whose value is no number, and two with another
\* value
QuintLines ==
    {Join(<<r, c, <<ij[1]>>, <<ij[2]>>, <<"5">>>>, " ") :
        r \in FileLabels, c \in FileLabels, ij \in IndexPairs}
        \cup {Join(<<<<"a">>, <<"b">>, UsizeOverflow, <<"1">>, <<"5">>>>, " "),
              Join(<<<<"a">>, <<"b">>, <<"0">>, <<"1">>, <<"x">>>>, " "),
              Join(<<<<"b">>, <<"a">>, <<"1">>, <<"0">>, <<"7">>>>, " "),
              Join(<<<<"b">>, <<"a">>, <<"2">>, <<"0">>, <<"7">>>>, " ")}

InitQuint ==
    /\ builder = DataMatrixBuilder_new
    /\ input \in [path : {DatPath},
                  disk : {PlainFile(lines) : lines \in SeqsUpTo(QuintLines, MaxQuintLines)}]
    /\ call = "none"
    /\ result = NoResult
    /\ objects = <<>>
    /\ indexer = Indexer_new

NextQuint ==
    \/ Set_index_columns(2, 3)
    \/ Set_data_column(4)
    \/ \E b \in BOOLEAN : Set_symmetric(b)
    \/ Call_from_file

SpecQuint == InitQuint /\ [][NextQuint]_vars

RowIndexOf(parts) == ParseUsize(Part(parts, builder.row_idx_col.val)).val

ColIndexOf(parts) == ParseUsize(Part(parts, builder.col_idx_col.val)).val

\* A well-formed file in quintuple form: the file is read, every parsed
\* line has all configured columns, and numbers where the indices and the
\* value are read
QuintWellFormed ==
    /\ IsOk(ParsedFile)
    /\ \A k \in 1..Len(ParsedLines) :
           LET parts == ParsedLines[k]
           IN  /\ Len(parts) >= MaxReferencedColumn + 1
               /\ ParseUsize(Part(parts, builder.row_idx_col.val)).some
               /\ ParseUsize(Part(parts, builder.col_idx_col.val)).some
               /\ ParseF64(Part(parts, builder.data_col)).some

\* The (label, index) pairs the file gives for the rows and for the
\* columns; a symmetric build has one axis, fed by both label columns
LineEntries(rows) ==
    {<<RowLabelOf(ParsedLines[k]), RowIndexOf(ParsedLines[k])>> :
        k \in IF rows \/ builder.symmetric THEN 1..Len(ParsedLines) ELSE {}}
    \cup
    {<<ColLabelOf(ParsedLines[k]), ColIndexOf(ParsedLines[k])>> :
        k \in IF ~rows \/ builder.symmetric THEN 1..Len(ParsedLines) ELSE {}}

\* No label is given two indices on one axis and no index two labels
QuintLabelsConsistent ==
    \A rows \in BOOLEAN : \A e, f \in LineEntries(rows) : (e[1] = f[1]) <=> (e[2] = f[2])

\* The same, and no cell is given two values: the file says one thing about
\* every label and cell
QuintConsistent ==
    /\ QuintLabelsConsistent
    /\ \A k, l \in 1..Len(ParsedLines) :
           LET p == ParsedLines[k]
               q == ParsedLines[l]
           IN  \/ ValueOf(p) = ValueOf(q)
               \/ ~ \/ RowIndexOf(p) = RowIndexOf(q) /\ ColIndexOf(p) = ColIndexOf(q)
                    \/ /\ builder.symmetric
                       /\ RowIndexOf(p) = ColIndexOf(q) /\ ColIndexOf(p) = RowIndexOf(q)

MaxOver(S) == CHOOSE m \in S : \A x \in S : x <= m

\* C3: in quintuple form the grid has (largest explicit index + 1) rows and
\* columns on each axis, every label stands in the label list at its
\* explicit index, every value at the cell its line's indices name; sparse
\* indices give a successful build with unused rows and columns.
C3_DimensionIsLargestIndexPlusOne ==
    (/\ call = "from_file" /\ QuintupleForm
     /\ Len(ParsedLines) > 0 /\ QuintWellFormed /\ QuintConsistent) =>
        /\ IsOk(result)
        /\ nrows(result.val) = MaxOver({e[2] : e \in LineEntries(TRUE)}) + 1
        /\ ncols(result.val) = MaxOver({e[2] : e \in LineEntries(FALSE)}) + 1
        /\ \A e \in LineEntries(TRUE) : result.val.row_labels[e[2] + 1] = e[1]
        /\ \A e \in LineEntries(FALSE) : result.val.col_labels[e[2] + 1] = e[1]
        /\ \A k \in 1..Len(ParsedLines) :
               LET parts == ParsedLines[k]
               IN  get(result.val, RowIndexOf(parts), ColIndexOf(parts))
                       = Some(ValueOf(parts))

\* The same for files whose indices on each axis are exactly 0 .. n - 1
C3_HoldsForContiguousIndices ==
    (/\ call = "from_file" /\ QuintupleForm
     /\ Len(ParsedLines) > 0 /\ QuintWellFormed /\ QuintConsistent
     /\ \A rows \in BOOLEAN :
            {e[2] : e \in LineEntries(rows)} = 0..(Cardinality(LineEntries(rows)) - 1)) =>
        /\ IsOk(result)
        /\ nrows(result.val) = MaxOver({e[2] : e \in LineEntries(TRUE)}) + 1
        /\ ncols(result.val) = MaxOver({e[2] : e \in LineEntries(FALSE)}) + 1
        /\ \A e \in LineEntries(TRUE) : result.val.row_labels[e[2] + 1] = e[1]
        /\ \A e \in LineEntries(FALSE) : result.val.col_labels[e[2] + 1] = e[1]
        /\ \A k \in 1..Len(ParsedLines) :
               LET parts == ParsedLines[k]
               IN  get(result.val, RowIndexOf(parts), ColIndexOf(parts))
                       = Some(ValueOf(parts))

\* The tokens from_file fails to parse: (0-based position of the line among
\* the parsed lines, token), for the index columns in quintuple form and for
\* the value column
UnparsedTokens ==
    {<<k - 1, Part(ParsedLines[k], builder.row_idx_col.val)>> :
        k \in {l \in 1..Len(ParsedLines) :
                  /\ QuintupleForm
                  /\ ~ParseUsize(Part(ParsedLines[l], builder.row_idx_col.val)).some}}
    \cup
    {<<k - 1, Part(ParsedLines[k], builder.col_idx_col.val)>> :
        k \in {l \in 1..Len(ParsedLines) :
                  /\ QuintupleForm
                  /\ ~ParseUsize(Part(ParsedLines[l], builder.col_idx_col.val)).some}}
    \cup
    {<<k - 1, Part(ParsedLines[k], builder.data_col)>> :
        k \in {l \in 1..Len(ParsedLines) :
                  ~ParseF64(Part(ParsedLines[l], builder.data_col)).some}}

\* C13: in triplet or quintuple form, when a row-index, column-index or
\* value token fails to parse, the build returns ParseError whose line is
\* the 0-based position of that line among the parsed lines and whose
\* content is exactly that token.
C13_ParseErrorNamesLineAndToken ==
    (/\ call = "from_file" /\ ~builder.labels.some
     /\ AllLinesLongEnough
     /\ UnparsedTokens # {}) =>
        /\ IsErr(result, "ParseError")
        /\ <<result.error.line, result.error.content>> \in UnparsedTokens

\* The same in triplet form, where no explicit index sizes the grid
C13_HoldsInTripletForm ==
    (/\ call = "from_file" /\ TripletForm
     /\ AllLinesLongEnough
     /\ UnparsedTokens # {}) =>
        /\ IsErr(result, "ParseError")
        /\ <<result.error.line, result.error.content>> \in UnparsedTokens

\* Every ParseError from_file returns in these forms names a parsed line by
\* its 0-based position and carries the token of that line that failed
C13_EveryParseErrorNamesLineAndToken ==
    (call = "from_file" /\ ~builder.labels.some /\ IsErr(result, "ParseError")) =>
        <<result.error.line, result.error.content>> \in UnparsedTokens

\* C14: two runs of from_file on the same file with the same configuration
\* yield identical grids and identical row and column label orderings, in
\* every mode, whatever the iteration order of the indexer's hash map: the
\* outcome of a run is the only outcome the call has.
C14_FromFileHasOneOutcome ==
    call = "from_file" =>
        \A other \in from_file(builder, input.path, input.disk) : other = result

\* The same in triplet form, where the indexer numbers the labels itself
C14_OneOutcomeInTripletForm ==
    (call = "from_file" /\ ~QuintupleForm) =>
        \A other \in from_file(builder, input.path, input.disk) : other = result

RECURSIVE FirstSeen(_)
\* The distinct elements of a sequence, each at its first occurrence
FirstSeen(seq) ==
    IF Len(seq) = 0 THEN <<>>
    ELSE LET before == FirstSeen(SubSeq(seq, 1, Len(seq) - 1))
         IN  IF \E k \in 1..Len(before) : before[k] = seq[Len(seq)]
             THEN before
             ELSE Append(before, seq[Len(seq)])

RowLabelColumn == [k \in 1..Len(ParsedLines) |-> RowLabelOf(ParsedLines[k])]

ColLabelColumn == [k \in 1..Len(ParsedLines) |-> ColLabelOf(ParsedLines[k])]

\* The labels in the order a reader of whole lines meets them
BothLabelColumns ==
    [k \in 1..(2 * Len(ParsedLines)) |->
        IF k % 2 = 1 THEN RowLabelOf(ParsedLines[(k + 1) \div 2])
        ELSE ColLabelOf(ParsedLines[k \div 2])]

\* Some parsed line writes the cell (i, j) of the matrix m, 1-based here
WrittenByALine(m, i, j) ==
    \E k \in 1..Len(ParsedLines) :
        \/ /\ m.row_labels[i] = RowLabelOf(ParsedLines[k])
           /\ m.col_labels[j] = ColLabelOf(ParsedLines[k])
        \/ /\ builder.symmetric
           /\ m.row_labels[j] = RowLabelOf(ParsedLines[k])
           /\ m.col_labels[i] = ColLabelOf(ParsedLines[k])

\* C16: the build of a well-formed file in triplet form gives a matrix;
\* without symmetric, nrows is the number of distinct labels of the
\* row-label column and ncols that of the column-label column, each label
\* list in first-seen order of its own column; with symmetric the two label
\* lists are equal, hold every label of both columns, and the matrix is
\* square; every cell no parsed line writes is 0.  A file without a data
\* line has no label: 0 rows and 0 columns.
C16_TripletShapeAndLabels ==
    (call = "from_file" /\ TripletForm /\ TripletWellFormed) =>
        /\ IsOk(result)
        /\ LET m == result.val
           IN  /\ ~builder.symmetric =>
                      /\ m.row_labels = FirstSeen(RowLabelColumn)
                      /\ m.col_labels = FirstSeen(ColLabelColumn)
                      /\ nrows(m) = Cardinality({RowLabelColumn[k] : k \in DOMAIN RowLabelColumn})
                      /\ ncols(m) = Cardinality({ColLabelColumn[k] : k \in DOMAIN ColLabelColumn})
               /\ builder.symmetric =>
                      /\ m.row_labels = FirstSeen(BothLabelColumns)
                      /\ m.col_labels = m.row_labels
                      /\ nrows(m) = Cardinality({BothLabelColumns[k] : k \in DOMAIN BothLabelColumns})
                      /\ ncols(m) = nrows(m)
               /\ \A i \in 1..nrows(m) : \A j \in 1..ncols(m) :
                      /\ Len(m.data[i]) = ncols(m)
                      /\ ~WrittenByALine(m, i, j) => m.data[i][j] = F64(0)

\* The same for the files that have a data line
C16_HoldsWithADataLine ==
    (call = "from_file" /\ TripletForm /\ TripletWellFormed /\ Len(ParsedLines) > 0) =>
        /\ IsOk(result)
        /\ LET m == result.val
           IN  /\ ~builder.symmetric =>
                      /\ m.row_labels = FirstSeen(RowLabelColumn)
                      /\ m.col_labels = FirstSeen(ColLabelColumn)
                      /\ nrows(m) = Cardinality({RowLabelColumn[k] : k \in DOMAIN RowLabelColumn})
                      /\ ncols(m) = Cardinality({ColLabelColumn[k] : k \in DOMAIN ColLabelColumn})
               /\ builder.symmetric =>
                      /\ m.row_labels = FirstSeen(BothLabelColumns)
                      /\ m.col_labels = m.row_labels
                      /\ nrows(m) = Cardinality({BothLabelColumns[k] : k \in DOMAIN BothLabelColumns})
                      /\ ncols(m) = nrows(m)
               /\ \A i \in 1..nrows(m) : \A j \in 1..ncols(m) :
                      /\ Len(m.data[i]) = ncols(m)
                      /\ ~WrittenByALine(m, i, j) => m.data[i][j] = F64(0)

\* Without a data line no matrix, and no error, comes back
C16_NoDataLinePanics ==
    (call = "from_file" /\ TripletForm /\ TripletWellFormed /\ Len(ParsedLines) = 0) =>
        IsPanic(result)

\* "a b 1", "b c 1.5" without symmetric: rows a, b and columns b, c
C16_TwoLinesBuilt ==
    /\ call = "from_file" /\ TripletForm /\ ~builder.symmetric /\ IsOk(result)
    /\ result.val.row_labels = << <<"a">>, <<"b">> >>
    /\ result.val.col_labels = << <<"b">>, <<"c">> >>
    /\ result.val.data = << <<F64(1), F64(0)>>, <<F64(0), NearestF64(FALSE, <<"1", "5">>, -1)>> >>

\* The same file with symmetric: the label c, seen only as a column, has a row
C16_TwoLinesBuiltSymmetric ==
    /\ call = "from_file" /\ TripletForm /\ builder.symmetric /\ IsOk(result)
    /\ result.val.row_labels = << <<"a">>, <<"b">>, <<"c">> >>
    /\ result.val.col_labels = result.val.row_labels
    /\ result.val.data = << <<F64(0), F64(1), F64(0)>>,
                         <<F64(1), F64(0), NearestF64(FALSE, <<"1", "5">>, -1)>>,
                         <<F64(0), NearestF64(FALSE, <<"1", "5">>, -1), F64(0)>> >>

\* The (label, index) pairs of the lines of a symmetric quintuple file in
\* reading order
BothIndexColumns(lines) ==
    [k \in 1..(2 * Len(lines)) |->
        IF k % 2 = 1
        THEN <<RowLabelOf(lines[(k + 1) \div 2]), RowIndexOf(lines[(k + 1) \div 2])>>
        ELSE <<ColLabelOf(lines[k \div 2]), ColIndexOf(lines[k \div 2])>>]

\* The index of every label on the one axis of a symmetric build: its first
\* explicit index in quintuple form, its first-seen place otherwise
SharedIndex(lines) ==
    IF QuintupleForm
    THEN LET pairs == BothIndexColumns(lines)
         IN  [label \in {pairs[k][1] : k \in DOMAIN pairs} |->
                 pairs[CHOOSE k \in DOMAIN pairs :
                           /\ pairs[k][1] = label
                           /\ \A l \in 1..(k - 1) : pairs[l][1] # label][2]]
    ELSE LET seen == FirstSeen([k \in 1..(2 * Len(lines)) |->
                                   IF k % 2 = 1 THEN RowLabelOf(lines[(k + 1) \div 2])
                                   ELSE ColLabelOf(lines[k \div 2])])
         IN  [label \in {seen[k] : k \in DOMAIN seen} |->
                 (CHOOSE k \in DOMAIN seen : seen[k] = label) - 1]

\* A well-formed file of a build without given labels; with explicit
\* indices every label has one index and every index one label
WellFormed ==
    IF QuintupleForm THEN QuintWellFormed /\ QuintLabelsConsistent ELSE TripletWellFormed

\* C19: a symmetric build of a well-formed file resolves conflicting writes
\* by file order: for every parsed line, the build gives a matrix where the
\* cell (i, j) the line writes and its mirror (j, i) hold the value of the
\* last parsed line that writes one of the two; no conflict is reported and
\* no value is averaged.
C19_SymmetricLastWriteWins ==
    (call = "from_file" /\ ~builder.labels.some /\ builder.symmetric /\ WellFormed) =>
        \A k \in 1..Len(ParsedLines) :
            LET lines   == ParsedLines
                shared  == SharedIndex(lines)
                i       == shared[RowLabelOf(lines[k])]
                j       == shared[ColLabelOf(lines[k])]
                writers == {l \in DOMAIN lines :
                               {shared[RowLabelOf(lines[l])], shared[ColLabelOf(lines[l])]}
                                   = {i, j}}
            IN  /\ IsOk(result)
                /\ get(result.val, i, j) = Some(ValueOf(lines[MaxOver(writers)]))
                /\ get(result.val, j, i) = Some(ValueOf(lines[MaxOver(writers)]))

\* The same in triplet form
C19_HoldsInTripletForm ==
    (call = "from_file" /\ TripletForm /\ builder.symmetric /\ TripletWellFormed) =>
        \A k \in 1..Len(ParsedLines) :
            LET lines   == ParsedLines
                shared  == SharedIndex(lines)
                i       == shared[RowLabelOf(lines[k])]
                j       == shared[ColLabelOf(lines[k])]
                writers == {l \in DOMAIN lines :
                               {shared[RowLabelOf(lines[l])], shared[ColLabelOf(lines[l])]}
                                   = {i, j}}
            IN  /\ IsOk(result)
                /\ get(result.val, i, j) = Some(ValueOf(lines[MaxOver(writers)]))
                /\ get(result.val, j, i) = Some(ValueOf(lines[MaxOver(writers)]))

\* The same with explicit indices that are exactly 0 .. n - 1
C19_HoldsWithoutIndexGaps ==
    (/\ call = "from_file" /\ QuintupleForm /\ builder.symmetric /\ WellFormed
     /\ {e[2] : e \in LineEntries(TRUE)} = 0..(Cardinality(LineEntries(TRUE)) - 1)) =>
        \A k \in 1..Len(ParsedLines) :
            LET lines   == ParsedLines
                shared  == SharedIndex(lines)
                i       == shared[RowLabelOf(lines[k])]
                j       == shared[ColLabelOf(lines[k])]
                writers == {l \in DOMAIN lines :
                               {shared[RowLabelOf(lines[l])], shared[ColLabelOf(lines[l])]}
                                   = {i, j}}
            IN  /\ IsOk(result)
                /\ get(result.val, i, j) = Some(ValueOf(lines[MaxOver(writers)]))
                /\ get(result.val, j, i) = Some(ValueOf(lines[MaxOver(writers)]))

\* In every matrix a symmetric build returns, each cell holds the value of
\* the last parsed line that writes it, directly or mirrored, and 0 when
\* there is none
C19_HoldsWhereAMatrixIsBuilt ==
    (call = "from_file" /\ ~builder.labels.some /\ builder.symmetric /\ IsOk(result)) =>
        LET lines  == ParsedLines
            shared == SharedIndex(lines)
            row    == [k \in DOMAIN lines |-> shared[RowLabelOf(lines[k])]]
            col    == [k \in DOMAIN lines |-> shared[ColLabelOf(lines[k])]]
            value  == [k \in DOMAIN lines |-> ValueOf(lines[k])]
        IN  \A i, j \in 0..(nrows(result.val) - 1) :
                LET writers == {k \in DOMAIN lines :
                                   \/ row[k] = i /\ col[k] = j
                                   \/ row[k] = j /\ col[k] = i}
                IN  get(result.val, i, j) =
                        IF writers = {} THEN Some(F64(0))
                        ELSE Some(value[MaxOver(writers)])

\* "a b 0 1 5" then "b a 1 0 7": both cells hold 7
C19_BothCellsHoldTheLaterValue ==
    /\ call = "from_file" /\ builder.symmetric /\ builder.data_col = 4 /\ IsOk(result)
    /\ Len(ParsedLines) = 2
    /\ ParsedLines[1] = << <<"a">>, <<"b">>, <<"0">>, <<"1">>, <<"5">> >>
    /\ ParsedLines[2] = << <<"b">>, <<"a">>, <<"1">>, <<"0">>, <<"7">> >>
    /\ get(result.val, 0, 1) = Some(F64(7))
    /\ get(result.val, 1, 0) = Some(F64(7))

\* "a b 0 2 5" then "b a 2 0 7": a well-formed file, b has the index 2 and
\* no matrix is built
C19_IndexGapPanics ==
    /\ call = "from_file" /\ QuintupleForm /\ builder.symmetric /\ builder.data_col = 4
    /\ WellFormed
    /\ Len(ParsedLines) = 2
    /\ ParsedLines[1] = << <<"a">>, <<"b">>, <<"0">>, <<"2">>, <<"5">> >>
    /\ ParsedLines[2] = << <<"b">>, <<"a">>, <<"2">>, <<"0">>, <<"7">> >>
    /\ IsPanic(result)

----------------------------------------------------------------------------
(* from_file in flat single-column form: values only, labels given *)

MaxFlatLines == 4

FlatLines == {<<"1">>, <<"+", "0", ".", "1">>, <<"1", " ", "2">>, <<"x">>}

FlatLabels == {<<>>, <<<<"a">>>>, <<<<"a">>, <<"b">>>>}

TooManyColumns(line, content) ==
    [type |-> "TooManyColumns", line |-> line, content |-> content]

InitFlat ==
    /\ builder = DataMatrixBuilder_new
    /\ input \in [path : {DatPath},
                  disk : {PlainFile(lines) : lines \in SeqsUpTo(FlatLines, MaxFlatLines)}]
    /\ call = "none"
    /\ result = NoResult
    /\ objects = <<>>
    /\ indexer = Indexer_new

NextFlat ==
    \/ \E given \in FlatLabels : Set_labels(given)
    \/ \E val \in 0..1 : Set_data_column(val)
    \/ Call_from_file

SpecFlat == InitFlat /\ [][NextFlat]_vars

\* The lines read_one_column works on: parse_plain with ' ' as separator
FlatParsed ==
    LET rows == parse_plain(input.path, input.disk, " ", builder.skip_header)
    IN  IF IsOk(rows) THEN rows.val ELSE <<>>

FlatReadable == IsOk(parse_plain(input.path, input.disk, " ", builder.skip_header))

\* Every parsed line has a number in the value column
FlatAllValues ==
    \A k \in 1..Len(FlatParsed) :
        /\ Len(FlatParsed[k]) >= builder.data_col + 1
        /\ ParseF64(Part(FlatParsed[k], builder.data_col)).some

FlatValue(k) == ParseF64(Part(FlatParsed[k], builder.data_col)).val

\* C5: in flat mode a file of exactly n * n values with n labels L gives an
\* n x n matrix, row labels = column labels = L, get(i, j) = values[i*n + j].
C5_FlatRowMajor ==
    (/\ call = "from_file" /\ builder.labels.some /\ FlatReadable /\ FlatAllValues
     /\ Len(FlatParsed) = Len(builder.labels.val) * Len(builder.labels.val)) =>
        LET n == Len(builder.labels.val)
        IN  /\ IsOk(result)
            /\ nrows(result.val) = n
            /\ \A i \in 1..n : Len(result.val.data[i]) = n
            /\ result.val.row_labels = builder.labels.val
            /\ result.val.col_labels = builder.labels.val
            /\ \A i, j \in 0..(n - 1) :
                   get(result.val, i, j) = Some(FlatValue(i * n + j + 1))

\* The same statement for n >= 1
C5_FlatRowMajorNonEmpty ==
    (/\ call = "from_file" /\ builder.labels.some /\ FlatReadable /\ FlatAllValues
     /\ Len(builder.labels.val) > 0
     /\ Len(FlatParsed) = Len(builder.labels.val) * Len(builder.labels.val)) =>
        LET n == Len(builder.labels.val)
        IN  /\ IsOk(result)
            /\ nrows(result.val) = n
            /\ \A i \in 1..n : Len(result.val.data[i]) = n
            /\ result.val.row_labels = builder.labels.val
            /\ result.val.col_labels = builder.labels.val
            /\ \A i, j \in 0..(n - 1) :
                   get(result.val, i, j) = Some(FlatValue(i * n + j + 1))

\* The first parsed line that does not have exactly data_col + 1 tokens, 0
\* when there is none; the lines before it have their number
FirstOddLine ==
    LET odd == {k \in 1..Len(FlatParsed) : Len(FlatParsed[k]) # builder.data_col + 1}
    IN  IF odd = {} THEN 0 ELSE CHOOSE k \in odd : \A l \in odd : k <= l

\* C6: in flat mode a parsed line with more tokens than the one expected
\* value token fails the build with TooManyColumns, a line with fewer than
\* data_col + 1 tokens with NotEnoughColumns.
C6_FlatExtraTokenIsTooManyColumns ==
    (/\ call = "from_file" /\ builder.labels.some /\ FlatReadable
     /\ FirstOddLine > 0
     /\ \A k \in 1..(FirstOddLine - 1) : ParseF64(Part(FlatParsed[k], builder.data_col)).some) =>
        IF Len(FlatParsed[FirstOddLine]) > builder.data_col + 1
        THEN IsErr(result, "TooManyColumns")
        ELSE IsErr(result, "NotEnoughColumns")

\* C7: in flat mode, when the number of parsed values differs from
\* len(L) * len(L), the build fails with the ParseError that reports the
\* expected and the found count; no matrix is returned.
C7_FlatCountMismatchIsParseError ==
    (/\ call = "from_file" /\ builder.labels.some /\ FlatReadable /\ FlatAllValues
     /\ Len(FlatParsed) # Len(builder.labels.val) * Len(builder.labels.val)) =>
        /\ ~IsOk(result)
        /\ IsErr(result, "ParseError")
        /\ result.error.line = 0
        /\ result.error.content.expected_n = Len(builder.labels.val)
        /\ result.error.content.expected = Len(builder.labels.val) * Len(builder.labels.val)
        /\ result.error.content.found = Len(FlatParsed)

\* More values than a 1 x 1 matrix holds, and fewer than a 2 x 2 matrix needs
C7_Witness ==
    /\ call = "from_file" /\ builder.labels.some /\ FlatReadable /\ FlatAllValues
    /\ Len(FlatParsed) = 3
    /\ Len(builder.labels.val) \in {1, 2}
    /\ IsErr(result, "ParseError")

----------------------------------------------------------------------------
(* parse_plain on arbitrary short lines *)

MaxParseLines == 2

MaxLineLen == 2

LineChars == {" ", "\f", "#", "a"}

\* The lines as a text with "\n" or "\r\n" after every line, and the same
\* without the last "\n"
ParseTexts(lines) ==
    LET ended == {TextOf(lines, <<"\n">>), TextOf(lines, <<"\r", "\n">>)}
    IN  ended \cup {SubSeq(text, 1, Len(text) - 1) : text \in ended \ {<<>>}}

InitParse ==
    /\ builder = DataMatrixBuilder_new
    /\ input \in [path : {DatPath},
                  disk : {DiskOf(DatPath, StoredFile(text, FALSE)) :
                             text \in UNION {ParseTexts(lines) :
                                 lines \in SeqsUpTo(SeqsUpTo(LineChars, MaxLineLen),
                                                    MaxParseLines)}}]
    /\ call = "none"
    /\ result = NoResult
    /\ objects = <<>>
    /\ indexer = Indexer_new

NextParse ==
    \/ \E sep \in {" ", "#"} : Set_separator(sep)
    \/ \E b \in BOOLEAN : Set_skip_header(b)
    \/ Call_parse_plain

SpecParse == InitParse /\ [][NextParse]_vars

\* A line the specification keeps: not empty after trimming, and its first
\* non-whitespace character is not '#'
IsDataLine(line) == Len(trim(line)) > 0 /\ ~starts_with(trim_start(line), "#")

SeparatorInUse ==
    IF builder.separator.some THEN builder.separator.val ELSE guess_separator(input.path)

\* C10: parse_plain drops a line if and only if it is empty after trimming
\* or its first non-whitespace character is '#' (whitespace before the '#'
\* included); every other line is kept, in input order.
C10_DropsExactlyBlankAndComment ==
    (call = "parse_plain" /\ ~builder.skip_header /\ IsOk(Stored)) =>
        LET kept == SelectSeq(FileLines, IsDataLine)
        IN  /\ IsOk(result)
            /\ result.val = [k \in 1..Len(kept) |-> Tokenize(kept[k], SeparatorInUse)]

\* The same with "starts with '#'" for the comment test
C10_DropsBlankAndHashFirst ==
    (call = "parse_plain" /\ ~builder.skip_header /\ IsOk(Stored)) =>
        LET Kept(line) == Len(trim(line)) > 0 /\ ~starts_with(line, "#")
            kept == SelectSeq(FileLines, Kept)
        IN  /\ IsOk(result)
            /\ result.val = [k \in 1..Len(kept) |-> Tokenize(kept[k], SeparatorInUse)]

\* The lines the header rule leaves: all kept lines, or all but the first one
AfterHeader(kept, header) == IF header /\ Len(kept) > 0 THEN Tail(kept) ELSE kept

\* C11: with skip_header = true parse_plain drops exactly one line, the
\* first line that is neither blank nor a comment; blank and comment lines
\* before it do not consume the skip, every later such line is tokenized and
\* kept, and a file without such a line yields the empty sequence. With
\* skip_header = false no such line is dropped.
C11_HeaderIsFirstDataLine ==
    (call = "parse_plain" /\ IsOk(Stored)) =>
        LET kept == AfterHeader(SelectSeq(FileLines, IsDataLine),
                                builder.skip_header)
        IN  /\ IsOk(result)
            /\ builder.skip_header =>
                   result.val = [k \in 1..Len(kept) |-> Tokenize(kept[k], SeparatorInUse)]
            /\ ~builder.skip_header =>
                   /\ Len(result.val) >= Len(kept)
                   /\ \A k \in 1..Len(kept) :
                          \E m \in 1..Len(result.val) :
                              result.val[m] = Tokenize(kept[k], SeparatorInUse)

\* The header rule over the lines that do not start with '#': the skip is
\* consumed by the first line that is not blank and has no '#' in column 0
C11_HeaderIsFirstLineNotHashFirst ==
    (call = "parse_plain" /\ IsOk(Stored)) =>
        LET Kept(line) == Len(trim(line)) > 0 /\ ~starts_with(line, "#")
            kept == AfterHeader(SelectSeq(FileLines, Kept), builder.skip_header)
        IN  /\ IsOk(result)
            /\ result.val = [k \in 1..Len(kept) |-> Tokenize(kept[k], SeparatorInUse)]

----------------------------------------------------------------------------
(* guess_separator on file names with up to MaxExts extensions *)

MaxExts == 3

\* An extension as written in the file name, and its name in lower case
Ext(text, name) == [text |-> text, name |-> name]

Exts ==
    {Ext(<<"c", "s", "v">>, "csv"), Ext(<<"C", "S", "V">>, "csv"),
     Ext(<<"t", "s", "v">>, "tsv"), Ext(<<"t", "a", "b">>, "tab"),
     Ext(<<"p", "s", "v">>, "psv"), Ext(<<"s", "s", "v">>, "ssv"),
     Ext(<<"d", "a", "t">>, "dat"), Ext(<<"t", "x", "t">>, "txt"),
     Ext(<<"g", "z">>, "gz"), Ext(<<"G", "Z">>, "gz"),
     Ext(<<"b", "z", "2">>, "bz2"), Ext(<<"x", "z">>, "xz"),
     Ext(<<"z", "s", "t">>, "zst"), Ext(<<"z", "i", "p">>, "zip")}

RECURSIVE PathOf(_)
PathOf(exts) ==
    IF Len(exts) = 0 THEN <<"x">>
    ELSE PathOf(SubSeq(exts, 1, Len(exts) - 1)) \o <<".">> \o exts[Len(exts)].text

CommaLine == <<"a", ",", "b", ",", "1">>

InitSep ==
    /\ builder = DataMatrixBuilder_new
    /\ input \in {[exts |-> exts, path |-> PathOf(exts),
                   disk |-> DiskOf(PathOf(exts),
                                   StoredFile(TextOf(<<CommaLine>>, <<"\n">>),
                                              Len(exts) > 0
                                                  /\ exts[Len(exts)].text = <<"g", "z">>))] :
                     exts \in SeqsUpTo(Exts, MaxExts)}
    /\ call = "none"
    /\ result = NoResult
    /\ objects = <<>>
    /\ indexer = Indexer_new

NextSep ==
    \/ \E sep \in {",", ";"} : Set_separator(sep)
    \/ Call_guess_separator
    \/ Call_from_file

SpecSep == InitSep /\ [][NextSep]_vars

ExpectedByName(name) ==
    CASE name = "csv" -> ","
      [] name \in {"tsv", "tab"} -> "\t"
      [] name = "psv" -> "|"
      [] name = "ssv" -> ";"
      [] OTHER -> " "

\* The separator the extensions of a file name select, the last one first
ExpectedSeparator(exts) ==
    IF Len(exts) = 0 THEN " "
    ELSE IF exts[Len(exts)].name \in {"gz", "bz2", "xz", "zst", "zip"}
         THEN IF Len(exts) >= 2 THEN ExpectedByName(exts[Len(exts) - 1].name) ELSE " "
         ELSE ExpectedByName(exts[Len(exts)].name)

\* C12: guess_separator lower-cases the last extension, peels exactly one
\* compression suffix (gz, bz2, xz, zst, zip) and maps csv to ',', tsv and
\* tab to the tab character, psv to '|', ssv to ';', and dat, any other
\* extension or no extension to ' '; from_file uses the guess only when no
\* separator was configured, so a comma-separated line is split into its
\* three fields exactly when the configured separator, or without one the
\* guessed separator, is ','.
C12_SeparatorFromExtension ==
    /\ call = "guess_separator" => result = Ok(ExpectedSeparator(input.exts))
    /\ call = "from_file" =>
           (IsOk(result) <=>
               "," = IF builder.separator.some THEN builder.separator.val
                     ELSE ExpectedSeparator(input.exts))

\* "x.csv.gz.gz": only one compression layer is peeled
C12_Witness ==
    /\ call = "guess_separator"
    /\ input.path = <<"x", ".", "c", "s", "v", ".", "g", "z", ".", "g", "z">>
    /\ result = Ok(" ")

\* "x.CSV.gz" without a configured separator is read as comma-separated
C12_WitnessFromFile ==
    /\ call = "from_file"
    /\ ~builder.separator.some
    /\ input.path = <<"x", ".", "C", "S", "V", ".", "g", "z">>
    /\ IsOk(result)
    /\ result.val.row_labels = <<<<"a">>>>
    /\ result.val.col_labels = <<<<"b">>>>

----------------------------------------------------------------------------
(* Builder objects configured through the Python binding *)

InitBinding ==
    /\ builder = DataMatrixBuilder_new
    /\ input = [self |-> 0, args |-> <<>>]
    /\ call = "none"
    /\ result = NoResult
    /\ objects = <<>>
    /\ indexer = Indexer_new

NextBinding ==
    \/ Py_new
    \/ \E o \in DOMAIN objects :
        \/ Py_label_columns(o, 1, 0)
        \/ Py_data_column(o, 3)
        \/ Py_index_columns(o, 2, 3)
        \/ Py_separator(o, ",")
        \/ \E b \in BOOLEAN : Py_skip_header(o, b)
        \/ \E b \in BOOLEAN : Py_symmetric(o, b)
        \/ Py_labels(o, <<<<"a">>>>)

SpecBinding == InitBinding /\ [][NextBinding]_vars

SetterNames ==
    {"label_columns", "data_column", "index_columns", "separator", "skip_header",
     "symmetric", "labels"}

\* The fields a setter names, with the values its arguments give them
NamedFields(name, args) ==
    CASE name = "label_columns" -> [row_label_col |-> args[1], col_label_col |-> args[2]]
      [] name = "data_column"   -> [data_col |-> args[1]]
      [] name = "index_columns" ->
             [row_idx_col |-> [some |-> TRUE, val |-> args[1]],
              col_idx_col |-> [some |-> TRUE, val |-> args[2]]]
      [] name = "separator"     -> [separator |-> [some |-> TRUE, val |-> args[1]]]
      [] name = "skip_header"   -> [skip_header |-> args[1]]
      [] name = "symmetric"     -> [symmetric |-> args[1]]
      [] name = "labels"        -> [labels |-> [some |-> TRUE, val |-> args[1]]]

\* The configuration new() is said to give
Defaults ==
    [row_label_col |-> 0, col_label_col |-> 1, data_col |-> 2,
     row_idx_col |-> [some |-> FALSE], col_idx_col |-> [some |-> FALSE],
     separator |-> [some |-> FALSE], symmetric |-> FALSE, skip_header |-> FALSE,
     labels |-> [some |-> FALSE]]

\* What the last call returned is the receiver with the named fields set
ReturnedIsReceiverWithNamedFields ==
    /\ call = "new" => objects[result.val].inner = Defaults
    /\ call \in SetterNames =>
           LET before == objects[input.self].inner
               after  == objects[result.val].inner
               named  == NamedFields(call, input.args)
           IN  /\ DOMAIN after = DOMAIN before
               /\ \A f \in DOMAIN before :
                      after[f] = IF f \in DOMAIN named THEN named[f] ELSE before[f]

\* A step leaves every object that exists as it is
ObjectsKeepTheirConfiguration ==
    \A o \in DOMAIN objects : o \in DOMAIN objects' /\ objects'[o] = objects[o]

\* C15: new() gives the default configuration; each setter returns a
\* configuration that differs from its receiver only in the fields the
\* setter names, which hold the arguments; through the binding the receiver
\* and every other existing object stay unchanged, so configurations
\* branched from one builder never affect each other, after any sequence of
\* setter calls.
C15_SettersReturnNewConfigurations ==
    /\ []ReturnedIsReceiverWithNamedFields
    /\ [][ObjectsKeepTheirConfiguration]_vars

\* Two configurations branched from object 2 (symmetric only): object 3
\* with a separator, object 4 with another value column
C15_Witness ==
    /\ Len(objects) = 4
    /\ call = "data_column" /\ input.self = 2
    /\ objects[2].inner = [Defaults EXCEPT !.symmetric = TRUE]
    /\ objects[3].inner = [Defaults EXCEPT !.symmetric = TRUE,
                                           !.separator = [some |-> TRUE, val |-> ","]]
    /\ objects[4].inner = [Defaults EXCEPT !.symmetric = TRUE, !.data_col = 3]

----------------------------------------------------------------------------
(* An Indexer fed by add(): input is the sequence of labels added so far *)

IndexerLabels == {<<"a">>, <<"b">>, <<"c">>}

InitIndexer ==
    /\ builder = DataMatrixBuilder_new
    /\ input = <<>>
    /\ call = "none"
    /\ result = NoResult
    /\ objects = <<>>
    /\ indexer = Indexer_new

NextIndexer == \E label \in IndexerLabels : Indexer_add(label)

SpecIndexer == InitIndexer /\ [][NextIndexer]_vars

\* The place of a label among the distinct labels added, 1-based
PlaceOf(label, seen) == CHOOSE k \in 1..Len(seen) : seen[k] = label

AutoIndicesAreFirstSeenPlaces ==
    LET seen == FirstSeen(input)
    IN  /\ max_index(indexer) = Cardinality({input[k] : k \in DOMAIN input})
        /\ max_index(indexer) = Len(seen)
        /\ \A k \in 1..Len(seen) :
               /\ index(indexer, seen[k]) = Ok(k - 1)
               /\ index(indexer, seen[k]).val < max_index(indexer)
        /\ {indexer.label_to_index[l] : l \in Known(indexer)} = 0..(max_index(indexer) - 1)
        /\ \A ord \in Orders(Known(indexer)) :
               /\ to_vec(indexer, ord) = Ok(seen)
               /\ \A l \in Known(indexer) :
                      to_vec(indexer, ord).val[index(indexer, l).val + 1] = l
        /\ call = "add" =>
               result = Ok(PlaceOf(input[Len(input)], seen) - 1)

\* An add() of a label that was added before changes nothing
RepeatedAddChangesNothing ==
    (call' = "add" /\ \E k \in DOMAIN input : input[k] = input'[Len(input')]) =>
        indexer' = indexer

\* C17: after any sequence of add(label) calls the k-th distinct label in
\* first-seen order has index k-1, a repeated add returns the index of the
\* first occurrence and changes nothing, the assigned indices are exactly
\* 0..max_index()-1, max_index() is the number of distinct labels, and
\* to_vec()[index(l)] = l with no empty slot.
C17_AutoIndicesAreDense ==
    /\ []AutoIndicesAreFirstSeenPlaces
    /\ [][RepeatedAddChangesNothing]_vars

\* b, a, b, c: the repeated b keeps index 0, c gets index 2
C17_Witness ==
    /\ input = << <<"b">>, <<"a">>, <<"b">>, <<"c">> >>
    /\ call = "add"
    /\ result = Ok(2)
    /\ index(indexer, <<"b">>) = Ok(0)
    /\ max_index(indexer) = 3

----------------------------------------------------------------------------
(* An Indexer fed by add_explicit(): input is the sequence of (label, idx) *)

ExplicitIndices == 0..2

InitExplicit ==
    /\ builder = DataMatrixBuilder_new
    /\ input = <<>>
    /\ call = "none"
    /\ result = NoResult
    /\ objects = <<>>
    /\ indexer = Indexer_new

NextExplicit ==
    \E label \in {<<"a">>, <<"b">>}, idx \in ExplicitIndices : Indexer_add_explicit(label, idx)

SpecExplicit == InitExplicit /\ [][NextExplicit]_vars

FirstCallFor(label) ==
    CHOOSE k \in DOMAIN input :
        input[k][1] = label /\ \A l \in 1..(k - 1) : input[l][1] # label

FirstExplicitIndexStays ==
    /\ Known(indexer) = {input[k][1] : k \in DOMAIN input}
    /\ \A l \in Known(indexer) : index(indexer, l) = Ok(input[FirstCallFor(l)][2])
    /\ call = "add_explicit" => IsOk(result)

KnownLabelIsIgnored ==
    (call' = "add_explicit" /\ \E k \in DOMAIN input : input[k][1] = input'[Len(input')][1]) =>
        indexer' = indexer

\* C18: after any sequence of add_explicit(label, idx) calls, index(label)
\* is the idx of the first call for that label; a later call for a known
\* label, with whatever idx, leaves the whole mapping unchanged and reports
\* no error.
C18_FirstExplicitIndexWins ==
    /\ []FirstExplicitIndexStays
    /\ [][KnownLabelIsIgnored]_vars

\* a is given 1, then 2: it keeps 1
C18_Witness ==
    /\ Len(input) >= 2
    /\ input[1] = << <<"a">>, 1 >>
    /\ input[2] = << <<"a">>, 2 >>
    /\ call = "add_explicit"
    /\ index(indexer, <<"a">>) = Ok(1)

----------------------------------------------------------------------------
(* read_matrix and the builder on the same three-column files *)

MaxAgreeLines == 2

GzPath == <<"m", ".", "g", "z">>

AgreeLine == Join(<<<<"a">>, <<"b">>, <<"1">>>>, " ")

\* Lines "label label value", a comment, a comment behind a space, a line
\* with blanks around its fields, a line of two fields and a line whose
\* value is no number
AgreeLines ==
    {AgreeLine,
     Join(<<<<"b">>, <<"a">>, <<"2">>>>, " "),
     Join(<<<<"b">>, <<"c">>, <<"0", ".", "1">>>>, " "),
     Join(<<<<"a">>, <<"a">>, <<"2">>>>, " "),
     <<"#", " ", "c">>,
     <<" ", "#", " ", "c">>,
     <<"\f", "c", "\t", "a", "U+00A0", "\r", "2", " ">>,
     Join(<<<<"a">>, <<"b">>>>, " "),
     Join(<<<<"a">>, <<"b">>, <<"x">>>>, " ")}

\* A path and the disk it is opened on: the lines as text under a plain
\* name and under a gz name, compressed under a gz name; the file in a
\* directory; a directory, a disk without the file, a file named as if it
\* were a directory, a path through the file, and a path with a NUL in it
AgreeStored ==
    UNION {{<<DatPath, PlainFile(lines)>>,
            <<GzPath, DiskOf(GzPath, StoredFile(TextOf(lines, <<"\n">>), FALSE))>>,
            <<GzPath, DiskOf(GzPath, StoredFile(TextOf(lines, <<"\n">>), TRUE))>>} :
               lines \in SeqsUpTo(AgreeLines, MaxAgreeLines)}
        \cup {<<<<"d", "/">> \o DatPath,
                [cwd |-> <<>>,
                 entries |-> (<< <<"d">> >> :> Directory)
                                 @@ (<< <<"d">>, DatPath >> :>
                                         StoredFile(TextOf(<<AgreeLine>>, <<"\n">>), FALSE))]>>,
              <<DatPath, DiskOf(DatPath, Directory)>>,
              <<DatPath, EmptyDisk>>,
              <<DatPath \o <<"/">>, PlainFile(<<>>)>>,
              <<DatPath \o <<"/", "x">>, PlainFile(<<>>)>>,
              <<<<"m", "U+0000">>, PlainFile(<<>>)>>}

InitAgree ==
    /\ builder = DataMatrixBuilder_new
    /\ input \in {[path |-> stored[1], disk |-> stored[2],
                   col_i |-> cols[1], col_j |-> cols[2], col_val |-> 2,
                   make_symmetric |-> sym] :
                     stored \in AgreeStored,
                     cols \in {<<0, 1>>, <<1, 0>>},
                     sym \in BOOLEAN}
    /\ call = "none"
    /\ result = NoResult
    /\ objects = <<>>
    /\ indexer = Indexer_new

NextAgree ==
    \/ Set_label_columns(input.col_i, input.col_j)
    \/ Set_data_column(input.col_val)
    \/ Set_separator(" ")
    \/ Set_symmetric(input.make_symmetric)
    \/ Call_from_file
    \/ Call_read_matrix

SpecAgree == InitAgree /\ [][NextAgree]_vars

\* The builder is new().label_columns(r, c).data_column(v).separator(' ')
\* .symmetric(true), and read_matrix is given r, c, v and true
SameSymmetricConfiguration ==
    /\ input.make_symmetric
    /\ builder = [row_label_col |-> input.col_i, col_label_col |-> input.col_j,
                  data_col |-> input.col_val,
                  row_idx_col |-> [some |-> FALSE], col_idx_col |-> [some |-> FALSE],
                  separator |-> [some |-> TRUE, val |-> " "],
                  symmetric |-> TRUE, skip_header |-> FALSE,
                  labels |-> [some |-> FALSE]]

\* No line has whitespace before a '#', every data line has all three
\* columns and a value that is a number
AgreeWellFormed ==
    \A k \in DOMAIN FileLines :
        LET line  == FileLines[k]
            parts == split_whitespace(line)
        IN  /\ starts_with(trim_start(line), "#") => starts_with(line, "#")
            /\ IsDataLine(line) =>
                   /\ Len(parts) > Max(Max(input.col_i, input.col_j), input.col_val)
                   /\ ParseF64(Part(parts, input.col_val)).some

\* What the call that was not made returns on the same file
TheOtherReader ==
    IF call = "from_file"
    THEN {read_matrix(input.path, input.disk, input.col_i, input.col_j, input.col_val,
                      input.make_symmetric)}
    ELSE from_file(builder, input.path, input.disk)

\* C21: for every well-formed whitespace-separated triplet file,
\* read_matrix(file, r, c, v, true) and the builder configured with
\* label_columns(r, c), data_column(v), separator(' ') and symmetric(true)
\* return matrices with identical row labels, column labels and grids.
C21_ReadersAgree ==
    (/\ call \in {"from_file", "read_matrix"}
     /\ SameSymmetricConfiguration
     /\ AgreeWellFormed) =>
        \A other \in TheOtherReader : other = result

\* The file is stored as plain text under a name whose extension is not gz
StoredAsNamed ==
    /\ IsOk(Stored)
    /\ ~Stored.val.dir
    /\ ~Stored.val.gzip
    /\ ~(extension(input.path).some /\ extension(input.path).val = <<"g", "z">>)

\* C21 amended: the same for the files that are stored as plain text under
\* a name whose extension is not gz, the only files both readers read alike.
C21_ReadersAgreeOnPlainText ==
    (/\ call \in {"from_file", "read_matrix"}
     /\ SameSymmetricConfiguration
     /\ AgreeWellFormed
     /\ StoredAsNamed) =>
        \A other \in TheOtherReader : other = result

\* "a b 1", "b a 2" read by the builder: both cells hold 2, as read_matrix gives
C21_Witness ==
    /\ call = "from_file" /\ SameSymmetricConfiguration /\ AgreeWellFormed /\ StoredAsNamed
    /\ input.col_i = 0
    /\ Len(FileLines) = 2
    /\ IsOk(result)
    /\ result.val.row_labels = << <<"a">>, <<"b">> >>
    /\ result.val.data = << <<F64(0), F64(2)>>, <<F64(2), F64(0)>> >>
    /\ result = read_matrix(input.path, input.disk, 0, 1, 2, TRUE)

====
